---- MODULE Spec2Model ----
(***************************************************************************)
(* robinhood-tradebot: the trading bot (src/src/trading_bot.py), its       *)
(* control surface (src/src/web/dashboard.py, src/main.py), the ledger     *)
(* (src/src/utils/database.py) and the risk manager                        *)
(* (src/src/utils/risk_manager.py) as state machines.                      *)
(*                                                                         *)
(* Money is in whole dollars, confidences are in tenths (ConfUnit = 1.0),  *)
(* calendar dates are day numbers.                                         *)
(***************************************************************************)
EXTENDS Integers, Sequences, FiniteSets, TLC

(***************************************************************************)
(* Bounds of the model                                                     *)
(***************************************************************************)
\* execute_trade calls explored in one behaviour
MaxAttempts == 2
\* last calendar day the clock reaches
MaxDay == 1
\* update_daily_loss calls explored in one behaviour
MaxLossCalls == 2
\* rows logged, status updates made and clock readings taken in one
\* behaviour of the ledger
MaxRows == 2
MaxUpdates == 2
MaxClock == 2
\* longest price series explored
MaxSeriesLen == 4
\* the strategies' look-back windows, scaled down from the defaults
\* SMAStrategy(short_window=50, long_window=200) and RSIStrategy(period=14)
ShortWindow == 2
LongWindow == 3
Period == 2
ConfidenceSteps == 4

(***************************************************************************)
(* Program constants                                                       *)
(***************************************************************************)
\* confidence 1.0, in tenths
ConfUnit == 10
\* config.get('min_confidence', 0.6), in tenths
MinConfidence == 6
\* config.get('default_trade_amount', 100.0)
DefaultTradeAmount == 100
\* max(adjusted_amount, 10.0)
MinTradeAmount == 10
\* config.get('max_position_size', 1000.0)
DefaultMaxPositionSize == 1000
\* config.get('max_daily_loss', 500.0)
MaxDailyLoss == 500
\* config.get('max_positions', 5)
MaxPositions == 5
\* config.get('risk_percentage', 2.0)
RiskPercentage == 2
\* SMAStrategy threshold = 0.01, as 1 / ThresholdInverse
ThresholdInverse == 100
\* confidence = min(abs(pct_diff) * 10, 1.0)
ConfidenceGain == 10
\* RSIStrategy oversold_threshold = 30, overbought_threshold = 70, and the
\* top of the RSI scale
Oversold == 30
Overbought == 70
RSIScale == 100
\* buy_votes > 0.5, as 1 / VoteThresholdInverse
VoteThresholdInverse == 2

(***************************************************************************)
(* Input domains                                                           *)
(***************************************************************************)
TradingSymbols == <<"AAPL", "MSFT">>
OrderTypes == {"buy", "sell", "hold"}
\* the final signal of one analysis pass: (order_type, confidence)
FinalSignals == [order_type : OrderTypes, confidence : {5, 8}]
\* amounts an operator posts to /api/trade (amount > 0)
ManualAmounts == {50, 100}
\* portfolio.get('withdrawable_amount', 0) of a summary the broker gave: too
\* little for the default amount, or enough (an empty summary counts as 0)
BuyingPowers == {50, 100}
\* rh.account.get_positions(symbol): no entry, an entry with quantity 0 or
\* with shares, or the call raises
PositionLookups == {[kind |-> "none", quantity |-> 0], [kind |-> "entry", quantity |-> 0],
                    [kind |-> "entry", quantity |-> 2], [kind |-> "raise", quantity |-> 0]}
\* get_current_price: a price, or 0 for None
Prices == {0, 50}

\* RiskManager callers' inputs: can_trade amounts, realized losses,
\* len(rh.account.get_open_stock_positions()), portfolio['total_return_today'],
\* max_position_size configurations, confidences in tenths
RiskSymbols == {"AAPL"}
RiskAmounts == {8, 20, 1001}
LossAmounts == {200, 500}
PositionCounts == {0, 4, 5}
PortfolioValues == {-100, 0, 500, 2000, 100000}
PositionSizeLimits == {5, DefaultMaxPositionSize}
Confidences == {0, 5, 10}
Days == 0..MaxDay
\* what a broker lookup answers: a value, nothing (None or empty), or it raises
PositionAnswers == [kind : {"ok"}, n : PositionCounts] \cup {[kind |-> "raise", n |-> 0]}
PortfolioAnswers == [kind : {"ok"}, value : PortfolioValues]
                      \cup {[kind |-> "none", value |-> 0], [kind |-> "raise", value |-> 0]}

\* concurrent callers are explored with one representative of every input
\* that the shared RiskState does not depend on
AmountsOf(conc) == IF conc THEN {20} ELSE RiskAmounts
PositionAnswersOf(conc) == IF conc THEN {[kind |-> "ok", n |-> 0]} ELSE PositionAnswers
PortfolioAnswersOf(conc) == IF conc THEN {[kind |-> "none", value |-> 0]} ELSE PortfolioAnswers

\* closing prices of a series, the series a data source can return, and
\* what a strategy can be handed as data: a mapping without 'prices', with
\* prices None, or with a list of prices
SeriesPrices == {20, 21, 25, 40}
PriceSeries == UNION {[1..n -> SeriesPrices] : n \in 0..MaxSeriesLen}
FetchedData == [kind : {"list"}, prices : PriceSeries]
\* prices that move by about one percent a step, for the strategies' thresholds
SlowPrices == {49, 50, 51, 52}
SlowSeries == UNION {[1..n -> SlowPrices] : n \in 0..MaxSeriesLen}
SlowData == [kind : {"list"}, prices : SlowSeries]
StrategyData == FetchedData \cup SlowData \cup
                    {[kind |-> "nokey", prices |-> <<>>],
                     [kind |-> "none", prices |-> <<>>]}
NoData == [kind |-> "nokey", prices |-> <<>>]
\* self.strategies, and the names a configuration can list
StrategyNames == {"sma", "rsi"}
ConfigNames == StrategyNames \cup {"macd"}
ActiveLists == UNION {[1..n -> ConfigNames] : n \in 0..2}

\* the scheduler thread, the request threads and the main thread of main()
Threads == {"sched", "op", "op2", "main"}
\* the dashboard's request threads when two requests are served at once
Requesters == {"op", "op2"}
RiskCallers == {"r1", "r2"}
Operators == {"op"}
\* parser.add_argument('--mode', choices=['web', 'cli', 'daemon'])
Modes == {"web", "cli", "daemon"}
Schedulers == {"sched"}

VARIABLES
    \* TradingBot / RobinhoodAuth / robin_stocks session
    is_running, is_authenticated, rh_session,
    \* the trades table, the portfolio_snapshots table (number of rows) and
    \* the orders the broker accepted
    trades, snapshots, orders,
    \* per thread: position in the code and locals
    pc, loc,
    \* execute_trade calls begun so far, risk approvals granted so far
    attempts, approved,
    \* RiskManager
    daily_loss, last_reset_date, max_position_size,
    \* the wall clock (date) and the risk manager's callers
    today, rpc, rloc,
    \* history of the risk manager: losses recorded per date read, reset writes
    sumByDate, resets, lossCalls,
    \* the analysis: TradingBot.active_strategies, the market data of the
    \* pass, the strategies that raised in it, the signals dict (in insertion
    \* order), the final signal, and the position of the caller
    active_strategies, market_data, faulty, signals, final_signal, apc,
    \* the ledger's clock (datetime.now(), CURRENT_TIMESTAMP), and its last
    \* call: the operation, its arguments and the table it found
    clock, lastOp,
    \* main(): the parsed arguments, config['auto_trade'], the position of
    \* main, the position of the scheduler loop, and whether an operator has
    \* asked the dashboard to stop the bot
    args, auto_trade, mpc, spc, stopped

botVars == <<is_running, is_authenticated, rh_session, trades, snapshots, orders,
            pc, loc, attempts>>
riskVars == <<daily_loss, last_reset_date, max_position_size, today, rpc, rloc,
              sumByDate, resets, lossCalls>>
sigVars == <<active_strategies, market_data, faulty, signals, final_signal, apc>>
\* what the bot's threads never touch, what the risk manager's callers
\* never touch, and what an analysis never touches
ledgerVars == <<clock, lastOp>>
bootVars == <<args, auto_trade, mpc, spc, stopped>>
riskSide == <<approved, riskVars, sigVars, ledgerVars, bootVars>>
botSide == <<botVars, sigVars, ledgerVars, bootVars>>
tradeSide == <<botVars, approved, riskVars, ledgerVars, bootVars>>
vars == <<botVars, approved, riskVars, sigVars, ledgerVars, bootVars>>

\* no ledger call yet
NoOp == [op |-> "none", id |-> 0, status |-> "", before |-> <<>>,
         repeated |-> FALSE, updates |-> 0]

\* rh.account.get_positions(symbol) has not been called
NoPosition == [kind |-> "unread", quantity |-> 0]

\* a thread's locals; handled, last and snap0 are history of the cycle in
\* progress: the symbols taken so far, how the previous pass ended, and the
\* number of snapshots when the cycle began
NoLoc == [symbol |-> "", order_type |-> "hold", confidence |-> 0, amount |-> 0,
          caller |-> "", idx |-> 0, order_id |-> 0, price |-> 0,
          ret |-> FALSE, outcome |-> "", handled |-> <<>>, last |-> "",
          snap0 |-> 0, buying_power |-> 0, position |-> NoPosition]

(***************************************************************************)
(* TradingBot.start / RobinhoodAuth.login                                  *)
(***************************************************************************)
\* start() is entered and login() calls rh.login
StartBegin(t) ==
    /\ pc[t] = "idle"
    /\ pc' = [pc EXCEPT ![t] = "start_login"]
    /\ UNCHANGED <<is_running, is_authenticated, rh_session, trades, snapshots, orders, loc, attempts>>
    /\ UNCHANGED riskSide

\* rh.login returns: a session, nothing, or it raises (missing credentials
\* return False before the call)
StartLoginDone(t) ==
    /\ pc[t] = "start_login"
    /\ \E outcome \in {"ok", "fail", "raise"} :
        IF outcome = "ok"
        THEN /\ rh_session' = TRUE
             /\ pc' = [pc EXCEPT ![t] = "start_auth"]
        ELSE /\ rh_session' = rh_session
             /\ pc' = [pc EXCEPT ![t] = "idle"]
    /\ UNCHANGED <<is_running, is_authenticated, trades, snapshots, orders, loc, attempts>>
    /\ UNCHANGED riskSide

\* self.is_authenticated = True
StartSetAuth(t) ==
    /\ pc[t] = "start_auth"
    /\ is_authenticated' = TRUE
    /\ pc' = [pc EXCEPT ![t] = "start_run"]
    /\ UNCHANGED <<is_running, rh_session, trades, snapshots, orders, loc, attempts>>
    /\ UNCHANGED riskSide

\* self.is_running = True
StartSetRunning(t) ==
    /\ pc[t] = "start_run"
    /\ is_running' = TRUE
    /\ pc' = [pc EXCEPT ![t] = "idle"]
    /\ UNCHANGED <<is_authenticated, rh_session, trades, snapshots, orders, loc, attempts>>
    /\ UNCHANGED riskSide

(***************************************************************************)
(* TradingBot.stop / RobinhoodAuth.logout                                  *)
(***************************************************************************)
\* self.is_running = False
StopBegin(t) ==
    /\ pc[t] = "idle"
    /\ is_running' = FALSE
    /\ pc' = [pc EXCEPT ![t] = "stop_logout"]
    /\ UNCHANGED <<is_authenticated, rh_session, trades, snapshots, orders, loc, attempts>>
    /\ UNCHANGED riskSide

\* rh.logout() returns or raises; when it raises is_authenticated is left alone
StopLogout(t) ==
    /\ pc[t] = "stop_logout"
    /\ \E outcome \in {"ok", "raise"} :
        IF outcome = "ok"
        THEN /\ rh_session' = FALSE
             /\ pc' = [pc EXCEPT ![t] = "stop_auth"]
        ELSE /\ rh_session' = rh_session
             /\ pc' = [pc EXCEPT ![t] = "stop_ret"]
    /\ UNCHANGED <<is_running, is_authenticated, trades, snapshots, orders, loc, attempts>>
    /\ UNCHANGED riskSide

\* self.is_authenticated = False
StopSetAuth(t) ==
    /\ pc[t] = "stop_auth"
    /\ is_authenticated' = FALSE
    /\ pc' = [pc EXCEPT ![t] = "stop_ret"]
    /\ UNCHANGED <<is_running, rh_session, trades, snapshots, orders, loc, attempts>>
    /\ UNCHANGED riskSide

\* stop() returns
StopReturn(t) ==
    /\ pc[t] = "stop_ret"
    /\ pc' = [pc EXCEPT ![t] = "idle"]
    /\ UNCHANGED <<is_running, is_authenticated, rh_session, trades, snapshots, orders, loc, attempts>>
    /\ UNCHANGED riskSide

(***************************************************************************)
(* TradingBot.execute_trade                                                *)
(***************************************************************************)
\* where a finished execute_trade call goes back to: the cycle's loop
\* (time.sleep, next symbol), the loop of main's cli mode, where an
\* exception is not caught and ends the loop, or the request handler
AfterTrade(l) ==
    CASE l.caller = "cycle" -> "cycle"
      [] l.caller = "cli" -> IF l.outcome = "typeerror" THEN "cli_finally" ELSE "cli"
      [] OTHER -> "idle"

\* execute_trade reaches a return statement: ret is the value returned,
\* outcome names the path that was taken
Finish(t, l, ret, outcome) ==
    /\ loc' = [loc EXCEPT ![t] = [l EXCEPT !.ret = ret, !.outcome = outcome]]
    /\ pc' = [pc EXCEPT ![t] = "et_ret"]

\* history: how a pass of the cycle's loop ended: with an order ("traded"),
\* without a trade because the signal asked for none ("nothing"), or with a
\* failure ("fault")
PassResult(outcome) ==
    CASE outcome = "accepted" -> "traded"
      [] outcome \in {"nosignals", "lowconf", "hold"} -> "nothing"
      [] OTHER -> "fault"

\* a cycle whose loop ends at the first pass that fails
NextIndex_AbortOnFault(idx, outcome) ==
    IF outcome \in {"raise", "typeerror", "refused", "raised", "logfail"}
    THEN Len(TradingSymbols) + 1
    ELSE idx + 1

\* for symbol in symbols: the next symbol is taken after a pass that ended
\* normally, with continue (no signals) or in the except clause alike
NextIndex(idx, outcome) == idx + 1

\* execute_trade returns to its caller, or raises into it: the cycle's
\* except clause logs and continues, the request handler answers 500
EtReturn(t) ==
    /\ pc[t] = "et_ret"
    /\ pc' = [pc EXCEPT ![t] = AfterTrade(loc[t])]
    /\ loc' = [loc EXCEPT ![t] = IF loc[t].caller = "cycle"
                                 THEN [NoLoc EXCEPT !.caller = "cycle",
                                         !.idx = NextIndex(loc[t].idx, loc[t].outcome),
                                         !.handled = loc[t].handled,
                                         !.last = PassResult(loc[t].outcome),
                                         !.snap0 = loc[t].snap0]
                                 ELSE IF loc[t].caller = "cli"
                                 THEN [NoLoc EXCEPT !.caller = "cli",
                                                    !.idx = loc[t].idx + 1]
                                 ELSE NoLoc]
    /\ UNCHANGED <<is_running, is_authenticated, rh_session, trades, snapshots, orders, attempts>>
    /\ UNCHANGED riskSide

\* trade_amount = amount or self.default_trade_amount
TradeAmount(amount) == IF amount # 0 THEN amount ELSE DefaultTradeAmount

\* if not self.auth.is_authenticated: return False
\* if signal.order_type == HOLD: return True
EtAuth(t) ==
    /\ pc[t] = "et_auth"
    /\ IF ~is_authenticated
       THEN Finish(t, loc[t], FALSE, "noauth")
       ELSE IF loc[t].order_type = "hold"
       THEN Finish(t, loc[t], TRUE, "hold")
       ELSE /\ loc' = [loc EXCEPT ![t].amount = TradeAmount(loc[t].amount)]
            /\ pc' = [pc EXCEPT ![t] = "et_portfolio"]
    /\ UNCHANGED <<is_running, is_authenticated, rh_session, trades, snapshots, orders, attempts>>
    /\ UNCHANGED riskSide

\* a check that refuses only an account with nothing to spend
InsufficientBuyingPower_OnlyEmpty(buying_power, trade_amount) == buying_power <= 0
\* portfolio.get('buying_power', 0) < trade_amount
InsufficientBuyingPower(buying_power, trade_amount) == buying_power < trade_amount

\* portfolio = self.get_portfolio_summary(): {} when not authenticated or
\* when the broker call raises, so buying_power is 0 then
\* if BUY and buying_power < trade_amount: return False (buying_power is
\* read for a Buy only)
\* the comparison is outside the try block: a withdrawable_amount that does
\* not compare with a float (the broker's JSON text) raises out of
\* execute_trade
EtPortfolio(t) ==
    /\ pc[t] = "et_portfolio"
    /\ \/ \E bp \in (IF is_authenticated THEN BuyingPowers ELSE {}) \cup {0} :
            IF loc[t].order_type = "buy"
            THEN IF InsufficientBuyingPower(bp, loc[t].amount)
                 THEN Finish(t, [loc[t] EXCEPT !.buying_power = bp], FALSE, "nofunds")
                 ELSE /\ pc' = [pc EXCEPT ![t] = "et_order"]
                      /\ loc' = [loc EXCEPT ![t].buying_power = bp]
            ELSE /\ pc' = [pc EXCEPT ![t] = "et_positions"]
                 /\ UNCHANGED loc
       \/ /\ is_authenticated
          /\ loc[t].order_type = "buy"
          /\ Finish(t, loc[t], FALSE, "typeerror")
    /\ UNCHANGED <<is_running, is_authenticated, rh_session, trades, snapshots, orders, attempts>>
    /\ UNCHANGED riskSide

\* a check that sells whenever the broker lists the symbol
HoldsPosition_AnyEntry(position) == position.kind = "entry"
\* position and float(position[0]['quantity']) > 0
HoldsPosition(position) == position.kind = "entry" /\ position.quantity > 0

\* position = rh.account.get_positions(symbol): an entry with its quantity,
\* nothing, or the call raises (caught: return False)
EtPositions(t) ==
    /\ pc[t] = "et_positions"
    /\ \E position \in PositionLookups :
        CASE position.kind = "raise" ->
                Finish(t, [loc[t] EXCEPT !.position = position], FALSE, "posraise")
          [] position.kind # "raise" /\ HoldsPosition(position) ->
                /\ pc' = [pc EXCEPT ![t] = "et_order"]
                /\ loc' = [loc EXCEPT ![t].position = position]
          [] OTHER ->
                Finish(t, [loc[t] EXCEPT !.position = position], FALSE, "nopos")
    /\ UNCHANGED <<is_running, is_authenticated, rh_session, trades, snapshots, orders, attempts>>
    /\ UNCHANGED riskSide

\* result = rh.orders.order_{buy,sell}_fractional_by_price(symbol, trade_amount):
\* the broker accepts the order (only with a live session), returns
\* nothing, or the call raises
EtOrder(t) ==
    /\ pc[t] = "et_order"
    /\ \E answer \in (IF rh_session THEN {"accepted"} ELSE {}) \cup {"refused", "raise"} :
        CASE answer = "accepted" ->
                /\ orders' = Append(orders, [id |-> Len(orders) + 1,
                                             symbol |-> loc[t].symbol,
                                             order_type |-> loc[t].order_type,
                                             amount |-> loc[t].amount,
                                             caller |-> loc[t].caller,
                                             confidence |-> loc[t].confidence])
                /\ loc' = [loc EXCEPT ![t].order_id = Len(orders) + 1]
                /\ pc' = [pc EXCEPT ![t] = "et_price"]
          [] answer = "refused" -> /\ Finish(t, loc[t], FALSE, "refused")
                                   /\ orders' = orders
          [] answer = "raise" -> /\ Finish(t, loc[t], FALSE, "raised")
                                 /\ orders' = orders
    /\ UNCHANGED <<is_running, is_authenticated, rh_session, trades, snapshots, attempts>>
    /\ UNCHANGED riskSide

\* current_price = self.data_fetcher.get_current_price(symbol) or 0
EtPrice(t) ==
    /\ pc[t] = "et_price"
    /\ \E p \in Prices : loc' = [loc EXCEPT ![t].price = p]
    /\ pc' = [pc EXCEPT ![t] = "et_log"]
    /\ UNCHANGED <<is_running, is_authenticated, rh_session, trades, snapshots, orders, attempts>>
    /\ UNCHANGED riskSide

\* quantity = trade_amount / current_price if current_price > 0 else 0
Quantity(amount, price) == IF price > 0 THEN amount \div price ELSE 0

\* TradingDatabase.log_trade: the row that is inserted; status is the
\* column default, executed_at is NULL (0)
TradeRow(id, l, created_at) ==
    [id |-> id, symbol |-> l.symbol, order_type |-> l.order_type,
     quantity |-> Quantity(l.amount, l.price), price |-> l.price,
     total_amount |-> Quantity(l.amount, l.price) * l.price,
     strategy |-> "combined", confidence |-> l.confidence,
     reason |-> IF l.caller = "manual" THEN "Manual trade" ELSE "consensus",
     order_id |-> l.order_id, status |-> "pending",
     created_at |-> created_at, executed_at |-> 0]

\* an except clause that swallows the ledger's error and reports success
LogErrorResult_Success == TRUE
\* except Exception as e: ... return False
LogErrorResult == FALSE

\* self.database.log_trade(...); return True; a ledger error is raised by
\* log_trade and caught by execute_trade: return False
EtLog(t) ==
    /\ pc[t] = "et_log"
    /\ \E answer \in {"ok", "raise"} :
        IF answer = "ok"
        THEN /\ trades' = Append(trades, TradeRow(Len(trades) + 1, loc[t], clock))
             /\ Finish(t, loc[t], TRUE, "accepted")
        ELSE /\ trades' = trades
             /\ Finish(t, loc[t], LogErrorResult, "logfail")
    /\ UNCHANGED <<is_running, is_authenticated, rh_session, snapshots, orders, attempts>>
    /\ UNCHANGED riskSide

(***************************************************************************)
(* dashboard /api/trade: a manual trade                                    *)
(***************************************************************************)
\* signal = TradeSignal(BUY | SELL, 1.0, "Manual trade");
\* self.trading_bot.execute_trade(symbol, signal, amount)
ManualTrade(t) ==
    /\ pc[t] = "idle"
    /\ attempts < MaxAttempts
    /\ attempts' = attempts + 1
    /\ \E i \in 1..Len(TradingSymbols), ot \in {"buy", "sell"}, a \in ManualAmounts :
        loc' = [loc EXCEPT ![t] = [NoLoc EXCEPT !.symbol = TradingSymbols[i],
                                                !.order_type = ot,
                                                !.confidence = ConfUnit,
                                                !.amount = a,
                                                !.caller = "manual"]]
    /\ pc' = [pc EXCEPT ![t] = "et_auth"]
    /\ UNCHANGED <<is_running, is_authenticated, rh_session, trades, snapshots, orders>>
    /\ UNCHANGED riskSide

(***************************************************************************)
(* main.run_scheduled_trading / TradingBot.run_trading_cycle               *)
(***************************************************************************)
\* if not bot.is_running: return; else bot.run_trading_cycle(symbols)
RunScheduledTrading(t) ==
    /\ pc[t] = "idle"
    /\ is_running
    /\ pc' = [pc EXCEPT ![t] = "cycle"]
    /\ loc' = [loc EXCEPT ![t] = [NoLoc EXCEPT !.caller = "cycle", !.idx = 1,
                                               !.snap0 = snapshots]]
    /\ UNCHANGED <<is_running, is_authenticated, rh_session, trades, snapshots, orders, attempts>>
    /\ UNCHANGED riskSide

\* a cycle that executes every final signal
Qualifies_Always(confidence) == TRUE

\* if final_signal.confidence >= min_confidence: execute_trade
Qualifies(confidence) == confidence >= MinConfidence

\* one pass of the loop body on symbols[idx]: analyze_symbol gives no
\* signals (continue), the analysis or the decision raises (except:
\* continue), or make_trading_decision gives a final signal, which is
\* executed when its confidence reaches min_confidence
CycleSymbol(t) ==
    /\ pc[t] = "cycle"
    /\ loc[t].idx <= Len(TradingSymbols)
    /\ \/ \E outcome \in {"nosignals", "raise"} :
            /\ loc' = [loc EXCEPT ![t].idx = NextIndex(loc[t].idx, outcome),
                                  ![t].last = PassResult(outcome),
                                  ![t].handled = Append(@, TradingSymbols[loc[t].idx])]
            /\ UNCHANGED <<pc, attempts>>
       \/ \E s \in FinalSignals :
            IF Qualifies(s.confidence)
            THEN /\ attempts < MaxAttempts
                 /\ attempts' = attempts + 1
                 /\ loc' = [loc EXCEPT ![t].symbol = TradingSymbols[loc[t].idx],
                                       ![t].order_type = s.order_type,
                                       ![t].confidence = s.confidence,
                                       ![t].handled = Append(@, TradingSymbols[loc[t].idx])]
                 /\ pc' = [pc EXCEPT ![t] = "et_auth"]
            ELSE /\ loc' = [loc EXCEPT ![t].idx = NextIndex(loc[t].idx, "lowconf"),
                                       ![t].last = PassResult("lowconf"),
                                       ![t].handled = Append(@, TradingSymbols[loc[t].idx])]
                 /\ UNCHANGED <<pc, attempts>>
    /\ UNCHANGED <<is_running, is_authenticated, rh_session, trades, snapshots, orders>>
    /\ UNCHANGED riskSide

\* the loop is over: run_trading_cycle returns to run_scheduled_trading
CycleEnd(t) ==
    /\ pc[t] = "cycle"
    /\ loc[t].idx > Len(TradingSymbols)
    /\ pc' = [pc EXCEPT ![t] = "snapshot"]
    /\ UNCHANGED <<is_running, is_authenticated, rh_session, trades, snapshots, orders,
                   loc, attempts>>
    /\ UNCHANGED riskSide

\* the attributes TradingBot.__init__ sets
BotAttributes == {"config", "auth", "data_fetcher", "database", "strategies",
                  "active_strategies", "default_trade_amount", "is_running"}

\* portfolio = bot.get_portfolio_summary();
\* bot.db_manager.log_portfolio_snapshot(portfolio): the attribute lookup
\* raises AttributeError when the bot has no db_manager; the except clause
\* of run_scheduled_trading logs it
LogSnapshot(t) ==
    /\ pc[t] = "snapshot"
    /\ snapshots' = IF "db_manager" \in BotAttributes THEN snapshots + 1 ELSE snapshots
    /\ pc' = [pc EXCEPT ![t] = "sched_ret"]
    /\ UNCHANGED <<is_running, is_authenticated, rh_session, trades, orders, loc, attempts>>
    /\ UNCHANGED riskSide

\* run_scheduled_trading returns
SchedReturn(t) ==
    /\ pc[t] = "sched_ret"
    /\ pc' = [pc EXCEPT ![t] = "idle"]
    /\ loc' = [loc EXCEPT ![t] = NoLoc]
    /\ UNCHANGED <<is_running, is_authenticated, rh_session, trades, snapshots, orders, attempts>>
    /\ UNCHANGED riskSide

(***************************************************************************)
(* RiskManager                                                             *)
(***************************************************************************)
NoRLoc == [op |-> "", symbol |-> "", action |-> "", amount |-> 0, cd |-> 0, tmp |-> 0,
           result |-> FALSE, amt |-> 0, pos |-> [kind |-> "ok", n |-> 0],
           pf |-> [kind |-> "none", value |-> 0], conf |-> 0,
           dl |-> 0, atLimit |-> FALSE, amongApprovals |-> FALSE, reason |-> ""]

\* a caller may enter a method: any time when callers run concurrently,
\* only when no other call is in flight when calls are made one after the other
MayEnter(conc, t) == rpc[t] = "idle" /\ (conc \/ \A u \in RiskCallers : rpc[u] = "idle")

\* history: today's reset has been made, and the losses recorded today and
\* the counter both reach the limit
LimitReachedToday ==
    /\ last_reset_date = today
    /\ sumByDate[today] >= MaxDailyLoss
    /\ daily_loss >= MaxDailyLoss

\* history: every other call in flight is a can_trade call
OnlyApprovalsBeside(t) ==
    \A u \in RiskCallers \ {t} : rpc[u] # "idle" => rloc[u].op = "can_trade"

\* a method is entered; each begins with self.reset_daily_counters()
Enter(t, l) ==
    /\ rloc' = [rloc EXCEPT ![t] = l]
    /\ rpc' = [rpc EXCEPT ![t] = "reset_now"]

\* can_trade(symbol, order_type, amount) is called
CanTradeBegin(conc, t) ==
    /\ MayEnter(conc, t)
    /\ \E s \in RiskSymbols, a \in {"buy", "sell"}, m \in AmountsOf(conc) :
        Enter(t, [NoRLoc EXCEPT !.op = "can_trade", !.symbol = s, !.action = a,
                                !.amount = m])
    /\ UNCHANGED <<daily_loss, last_reset_date, max_position_size, today,
                   sumByDate, resets, lossCalls, approved>>
    /\ UNCHANGED botSide

\* update_daily_loss(loss_amount) is called
UpdateDailyLossBegin(conc, t) ==
    /\ MayEnter(conc, t)
    /\ lossCalls < MaxLossCalls
    /\ \E m \in LossAmounts :
        Enter(t, [NoRLoc EXCEPT !.op = "update_daily_loss", !.amount = m])
    /\ lossCalls' = lossCalls + 1
    /\ UNCHANGED <<daily_loss, last_reset_date, max_position_size, today,
                   sumByDate, resets, approved>>
    /\ UNCHANGED botSide

\* get_risk_metrics() is called
GetRiskMetricsBegin(conc, t) ==
    /\ MayEnter(conc, t)
    /\ Enter(t, [NoRLoc EXCEPT !.op = "get_risk_metrics"])
    /\ UNCHANGED <<daily_loss, last_reset_date, max_position_size, today,
                   sumByDate, resets, lossCalls, approved>>
    /\ UNCHANGED botSide

\* reset_daily_counters: current_date = datetime.now().date()
ResetReadDate(t) ==
    /\ rpc[t] = "reset_now"
    /\ rloc' = [rloc EXCEPT ![t].cd = today, ![t].atLimit = LimitReachedToday,
                            ![t].amongApprovals = OnlyApprovalsBeside(t)]
    /\ rpc' = [rpc EXCEPT ![t] = "reset_cmp"]
    /\ UNCHANGED <<daily_loss, last_reset_date, max_position_size, today,
                   sumByDate, resets, lossCalls, approved>>
    /\ UNCHANGED botSide

\* a reset_daily_counters that compares with >= and so resets on every call
DateAdvanced_NotStrict(current_date, last) == current_date >= last

\* if current_date > self.last_reset_date
DateAdvanced(current_date, last) == current_date > last

\* where a method continues after reset_daily_counters()
AfterReset(op) ==
    CASE op = "can_trade" -> "ct_checks"
      [] op = "update_daily_loss" -> "ud_read"
      [] op = "get_risk_metrics" -> "gm_read"

\* reset_daily_counters: the date comparison
ResetCompare(t) ==
    /\ rpc[t] = "reset_cmp"
    /\ rpc' = [rpc EXCEPT ![t] = IF DateAdvanced(rloc[t].cd, last_reset_date)
                                 THEN "reset_zero" ELSE AfterReset(rloc[t].op)]
    /\ UNCHANGED <<daily_loss, last_reset_date, max_position_size, today, rloc,
                   sumByDate, resets, lossCalls, approved>>
    /\ UNCHANGED botSide

\* reset_daily_counters: self.daily_loss = 0.0
ResetZero(t) ==
    /\ rpc[t] = "reset_zero"
    /\ daily_loss' = 0
    /\ resets' = [resets EXCEPT ![rloc[t].cd] = @ + 1]
    /\ rpc' = [rpc EXCEPT ![t] = "reset_date"]
    /\ UNCHANGED <<last_reset_date, max_position_size, today, rloc,
                   sumByDate, lossCalls, approved>>
    /\ UNCHANGED botSide

\* reset_daily_counters: self.last_reset_date = current_date
ResetSetDate(t) ==
    /\ rpc[t] = "reset_date"
    /\ last_reset_date' = rloc[t].cd
    /\ rpc' = [rpc EXCEPT ![t] = AfterReset(rloc[t].op)]
    /\ UNCHANGED <<daily_loss, max_position_size, today, rloc,
                   sumByDate, resets, lossCalls, approved>>
    /\ UNCHANGED botSide

\* if self.daily_loss >= self.max_daily_loss: return False
LossLimitReached(loss) == loss >= MaxDailyLoss

\* a can_trade that compares the amount with the wrong configured limit
SizeTooLarge_WrongLimit(amount, limit) == amount > MaxDailyLoss

\* if amount > self.max_position_size: return False
SizeTooLarge(amount, limit) == amount > limit

\* a can_trade that lets a Buy through when the position lookup raises
PositionsCheckFails_OpenOnError(action, pos) ==
    action = "buy" /\ pos.kind = "ok" /\ pos.n >= MaxPositions

\* buy orders: current_positions = len(positions) if positions else 0;
\* reject when current_positions >= self.max_positions, and when the lookup raises
PositionsCheckFails(action, pos) ==
    action = "buy" /\ (pos.kind = "raise" \/ pos.n >= MaxPositions)

\* a can_trade whose portfolio check also runs on a total value of zero
PortfolioCheckFails_AtZero(amount, pf) ==
    /\ pf.kind = "ok"
    /\ pf.value >= 0
    /\ amount * 100 > pf.value * RiskPercentage

\* if portfolio and total_value > 0: risk_amount = total_value *
\* (risk_percentage / 100); reject when amount > risk_amount. A lookup that
\* raises is logged and the check is skipped
PortfolioCheckFails(amount, pf) ==
    /\ pf.kind = "ok"
    /\ pf.value > 0
    /\ amount * 100 > pf.value * RiskPercentage

\* can_trade after the reset: the checks in the order of the code; the
\* answer names the check that returned False (each logs its own warning)
CanTradeChecks(loss, action, amount, limit, pos, pf) ==
    IF LossLimitReached(loss) THEN "daily_loss"
    ELSE IF SizeTooLarge(amount, limit) THEN "position_size"
    ELSE IF PositionsCheckFails(action, pos) THEN "positions"
    ELSE IF PortfolioCheckFails(amount, pf) THEN "portfolio"
    ELSE "ok"

\* can_trade, from the read of self.daily_loss to its return value; the
\* broker's answers to the two lookups are recorded with the result
CanTradeDecide(conc, t) ==
    /\ rpc[t] = "ct_checks"
    /\ \E pos \in PositionAnswersOf(conc), pf \in PortfolioAnswersOf(conc) :
        LET why == CanTradeChecks(daily_loss, rloc[t].action, rloc[t].amount,
                                  max_position_size, pos, pf)
        IN rloc' = [rloc EXCEPT ![t].dl = daily_loss, ![t].pos = pos, ![t].pf = pf,
                                ![t].reason = why, ![t].result = (why = "ok")]
    /\ rpc' = [rpc EXCEPT ![t] = "ct_ret"]
    /\ UNCHANGED <<daily_loss, last_reset_date, max_position_size, today,
                   sumByDate, resets, lossCalls, approved>>
    /\ UNCHANGED botSide

\* can_trade returns; an approval is remembered
CanTradeReturn(t) ==
    /\ rpc[t] = "ct_ret"
    /\ approved' = IF rloc[t].result
                   THEN approved \cup {<<rloc[t].symbol, rloc[t].action, rloc[t].amount>>}
                   ELSE approved
    /\ rpc' = [rpc EXCEPT ![t] = "idle"]
    /\ rloc' = [rloc EXCEPT ![t] = NoRLoc]
    /\ UNCHANGED <<daily_loss, last_reset_date, max_position_size, today,
                   sumByDate, resets, lossCalls>>
    /\ UNCHANGED botSide

\* update_daily_loss: self.daily_loss += loss_amount, the read
UpdateDailyLossRead(t) ==
    /\ rpc[t] = "ud_read"
    /\ rloc' = [rloc EXCEPT ![t].tmp = daily_loss]
    /\ rpc' = [rpc EXCEPT ![t] = "ud_write"]
    /\ UNCHANGED <<daily_loss, last_reset_date, max_position_size, today,
                   sumByDate, resets, lossCalls, approved>>
    /\ UNCHANGED botSide

\* update_daily_loss: self.daily_loss += loss_amount, the write; the call returns
UpdateDailyLossWrite(t) ==
    /\ rpc[t] = "ud_write"
    /\ daily_loss' = rloc[t].tmp + rloc[t].amount
    /\ sumByDate' = [sumByDate EXCEPT ![rloc[t].cd] = @ + rloc[t].amount]
    /\ rpc' = [rpc EXCEPT ![t] = "idle"]
    /\ rloc' = [rloc EXCEPT ![t] = NoRLoc]
    /\ UNCHANGED <<last_reset_date, max_position_size, today, resets, lossCalls, approved>>
    /\ UNCHANGED botSide

\* get_risk_metrics: the metrics are built from self.daily_loss; the call returns
GetRiskMetricsRead(t) ==
    /\ rpc[t] = "gm_read"
    /\ rpc' = [rpc EXCEPT ![t] = "idle"]
    /\ rloc' = [rloc EXCEPT ![t] = NoRLoc]
    /\ UNCHANGED <<daily_loss, last_reset_date, max_position_size, today,
                   sumByDate, resets, lossCalls, approved>>
    /\ UNCHANGED botSide

\* amounts of calculate_position_size are in 1/PosScale dollars: percent,
\* the factor 0.5 and tenths of confidence
PosScale == 100 * 2 * ConfUnit

\* base_amount * confidence_multiplier, then min(., max_position_size),
\* then max(., 10.0)
Max2(a, b) == IF a >= b THEN a ELSE b
Min2(a, b) == IF a <= b THEN a ELSE b
\* a calculate_position_size that applies the minimum before the maximum
ClampPosition_MinFirst(adjusted, limit) ==
    Min2(Max2(adjusted, MinTradeAmount * PosScale), limit * PosScale)
ClampPosition(adjusted, limit) ==
    Max2(Min2(adjusted, limit * PosScale), MinTradeAmount * PosScale)

\* calculate_position_size(symbol, confidence, current_price)
PositionSize(confidence, limit, pf) ==
    IF pf.kind # "ok" \/ pf.value <= 0
    THEN DefaultTradeAmount * PosScale
    ELSE ClampPosition(pf.value * RiskPercentage * (ConfUnit + confidence), limit)

\* calculate_position_size is called and returns
CalculatePositionSize(conc, t) ==
    /\ MayEnter(conc, t)
    /\ \E c \in Confidences, pf \in PortfolioAnswers :
        rloc' = [rloc EXCEPT ![t] = [NoRLoc EXCEPT !.op = "calculate_position_size",
                    !.conf = c, !.pf = pf,
                    !.amt = PositionSize(c, max_position_size, pf)]]
    /\ rpc' = [rpc EXCEPT ![t] = "ps_ret"]
    /\ UNCHANGED <<daily_loss, last_reset_date, max_position_size, today,
                   sumByDate, resets, lossCalls, approved>>
    /\ UNCHANGED botSide

CalculatePositionSizeReturn(t) ==
    /\ rpc[t] = "ps_ret"
    /\ rpc' = [rpc EXCEPT ![t] = "idle"]
    /\ rloc' = [rloc EXCEPT ![t] = NoRLoc]
    /\ UNCHANGED <<daily_loss, last_reset_date, max_position_size, today,
                   sumByDate, resets, lossCalls, approved>>
    /\ UNCHANGED botSide

\* the calendar date advances (datetime.now().date())
Tick ==
    /\ today < MaxDay
    /\ today' = today + 1
    /\ UNCHANGED <<daily_loss, last_reset_date, max_position_size, rpc, rloc,
                   sumByDate, resets, lossCalls, approved>>
    /\ UNCHANGED botSide

(***************************************************************************)
(* Strategies: SMAStrategy.analyze, RSIStrategy.analyze                    *)
(***************************************************************************)
\* a confidence (a float) is kept as the fraction num/den in lowest terms
RECURSIVE GCD(_, _)
GCD(a, b) == IF b = 0 THEN a ELSE GCD(b, a % b)
Frac(n, d) == LET g == GCD(n, d) IN [num |-> n \div g, den |-> d \div g]
FracAdd(a, b) == Frac(a.num * b.den + b.num * a.den, a.den * b.den)
FracLess(a, b) == a.num * b.den < b.num * a.den
FracOver(a, n) == Frac(a.num, a.den * n)
Abs(x) == IF x < 0 THEN -x ELSE x

\* TradeSignal(order_type, confidence, reason)
TradeSignal(order_type, confidence) ==
    [order_type |-> order_type, confidence |-> confidence]
NoSignal == TradeSignal("none", Frac(0, 1))

\* BaseStrategy.validate_data: 'prices' is in data and is not None
ValidateData(data) == data.kind = "list"

\* sum of the last n prices (rolling(window=n).mean().iloc[-1] times n)
RECURSIVE SumLast(_, _)
SumLast(prices, n) ==
    IF n = 0 THEN 0
    ELSE prices[Len(prices)] + SumLast(SubSeq(prices, 1, Len(prices) - 1), n - 1)

\* a length test that lets a series one price short through
InsufficientData_OffByOne(prices, required) == Len(prices) < required - 1
\* len(prices) < self.long_window, len(prices) < self.period + 1
InsufficientData(prices, required) == Len(prices) < required

\* a confidence left as computed
CapAtOne_Uncapped(c) == c
\* min(confidence, 1.0)
CapAtOne(c) == IF c.num > c.den THEN Frac(1, 1) ELSE c

\* a difference taken the wrong way round, long_ma - short_ma
MeanDifference_Swapped(S, L) == L * ShortWindow - S * LongWindow
\* short_ma - long_ma, times short_window * long_window, for the window sums
MeanDifference(S, L) == S * LongWindow - L * ShortWindow

\* a comparison that signals on the threshold itself
AboveThreshold_OrOn(diff, base) == diff * ThresholdInverse >= base
\* diff / base > self.threshold, for base > 0
AboveThreshold(diff, base) == diff * ThresholdInverse > base

\* SMAStrategy.analyze: with S and L the sums of the short and the long
\* window, pct_diff = (S/short - L/long) / (L/long) = diff / base; a window
\* longer than the series, or 0/0, gives nan, which compares False both ways
SMAAnalyze(data) ==
    IF ~ValidateData(data) THEN TradeSignal("hold", Frac(0, 1))
    ELSE IF InsufficientData(data.prices, LongWindow)
         THEN TradeSignal("hold", Frac(0, 1))
    ELSE IF Len(data.prices) < LongWindow \/ Len(data.prices) < ShortWindow
         THEN TradeSignal("hold", Frac(1, 2))
    ELSE LET S == SumLast(data.prices, ShortWindow)
             L == SumLast(data.prices, LongWindow)
             diff == MeanDifference(S, L)
             base == L * ShortWindow
         IN  IF base = 0
             THEN IF diff > 0 THEN TradeSignal("buy", Frac(1, 1))
                  ELSE TradeSignal("hold", Frac(1, 2))
             ELSE IF AboveThreshold(diff, base)
                  THEN TradeSignal("buy",
                         CapAtOne(Frac(Abs(diff) * ConfidenceGain, base)))
             ELSE IF AboveThreshold(-diff, base)
                  THEN TradeSignal("sell",
                         CapAtOne(Frac(Abs(diff) * ConfidenceGain, base)))
             ELSE TradeSignal("hold", Frac(1, 2))

\* delta.where(delta > 0, 0) and -delta.where(delta < 0, 0) at index i > 1
GainAt(prices, i) == IF prices[i] > prices[i - 1] THEN prices[i] - prices[i - 1] ELSE 0
LossAt(prices, i) == IF prices[i] < prices[i - 1] THEN prices[i - 1] - prices[i] ELSE 0
\* sums of the gains and of the losses of the last n price changes
RECURSIVE SumGains(_, _)
SumGains(prices, n) ==
    IF n = 0 THEN 0
    ELSE GainAt(prices, Len(prices)) + SumGains(SubSeq(prices, 1, Len(prices) - 1), n - 1)
RECURSIVE SumLosses(_, _)
SumLosses(prices, n) ==
    IF n = 0 THEN 0
    ELSE LossAt(prices, Len(prices)) + SumLosses(SubSeq(prices, 1, Len(prices) - 1), n - 1)

\* RSIStrategy.calculate_rsi: rs = avg_gains / avg_losses and
\* rsi = 100 - 100 / (1 + rs) = 100 * G / (G + Ls); no loss gives rs = inf and
\* rsi = 100, no change at all gives 0/0 = nan
CalculateRSI(prices) ==
    IF Len(prices) < Period + 1 THEN [nan |-> FALSE, value |-> Frac(RSIScale, 2)]
    ELSE LET G == SumGains(prices, Period)
             Ls == SumLosses(prices, Period)
         IN  IF Ls = 0
             THEN IF G = 0 THEN [nan |-> TRUE, value |-> Frac(0, 1)]
                  ELSE [nan |-> FALSE, value |-> Frac(RSIScale, 1)]
             ELSE [nan |-> FALSE, value |-> Frac(RSIScale * G, G + Ls)]

\* RSIStrategy.analyze
RSIAnalyze(data) ==
    IF ~ValidateData(data) THEN TradeSignal("hold", Frac(0, 1))
    ELSE IF InsufficientData(data.prices, Period + 1)
         THEN TradeSignal("hold", Frac(0, 1))
    ELSE LET rsi == CalculateRSI(data.prices)
             v == rsi.value
         IN  IF ~rsi.nan /\ v.num < Oversold * v.den
             THEN TradeSignal("buy",
                    CapAtOne(Frac(Oversold * v.den - v.num, Oversold * v.den)))
             ELSE IF ~rsi.nan /\ v.num > Overbought * v.den
             THEN TradeSignal("sell",
                    CapAtOne(Frac(v.num - Overbought * v.den,
                                  (RSIScale - Overbought) * v.den)))
             ELSE TradeSignal("hold", Frac(1, 2))

\* self.strategies[strategy_name].analyze(symbol, market_data)
StrategyAnalyze(name, data) ==
    IF name = "sma" THEN SMAAnalyze(data) ELSE RSIAnalyze(data)

(***************************************************************************)
(* TradingBot.analyze_symbol and TradingBot.make_trading_decision          *)
(***************************************************************************)
\* the signals dict, in insertion order: a sequence of [name, signal]
Keys(d) == {d[i].name : i \in 1..Len(d)}
\* signals[strategy_name] = signal: a present key keeps its position
DictSet(d, name, signal) ==
    IF name \in Keys(d)
    THEN [i \in 1..Len(d) |->
            IF d[i].name = name THEN [name |-> name, signal |-> signal] ELSE d[i]]
    ELSE Append(d, [name |-> name, signal |-> signal])

\* an analysis that misses the raise and records a signal all the same
StrategyRaised_Never(name, raising) == FALSE
\* strategy.analyze raised inside the try of analyze_symbol
StrategyRaised(name, raising) == name \in raising

\* the loop of analyze_symbol over the first n names of active_strategies
RECURSIVE RunStrategies(_, _, _, _)
RunStrategies(active, n, data, raising) ==
    IF n = 0 THEN <<>>
    ELSE LET before == RunStrategies(active, n - 1, data, raising)
             strategy_name == active[n]
         IN  IF strategy_name \notin StrategyNames THEN before
             ELSE IF StrategyRaised(strategy_name, raising) THEN before
             ELSE DictSet(before, strategy_name,
                          StrategyAnalyze(strategy_name, data))

\* analyze_symbol; get_market_data always returns a non-empty mapping
AnalyzeSymbol(active, data, raising) ==
    RunStrategies(active, Len(active), data, raising)

\* a decision without the guard for the empty dict
NoSignals_Never(sigs) == FALSE
\* if not signals
NoSignals(sigs) == sigs = <<>>

\* an accumulation that assigns where the code adds
AddVote_Overwrite(votes, signal) == signal.confidence
\* buy_votes += signal.confidence
AddVote(votes, signal) == FracAdd(votes, signal.confidence)

\* the votes of the first n items of the dict for the given order types,
\* accumulated from 0 in iteration order
RECURSIVE Votes(_, _, _)
Votes(sigs, n, types) ==
    IF n = 0 THEN Frac(0, 1)
    ELSE IF sigs[n].signal.order_type \in types
         THEN AddVote(Votes(sigs, n - 1, types), sigs[n].signal)
         ELSE Votes(sigs, n - 1, types)

\* a comparison that lets equal sums win
Outvotes_OrEqual(a, b) == ~FracLess(a, b)
\* a > b on the vote sums
Outvotes(a, b) == FracLess(b, a)

\* a decision that returns the vote sum itself as the confidence
Averaged_Undivided(order_type, votes, count) == TradeSignal(order_type, votes)
\* votes / len(signals): Python raises ZeroDivisionError on a zero count
Averaged(order_type, votes, count) ==
    IF count = 0 THEN TradeSignal("raise", Frac(0, 1))
    ELSE TradeSignal(order_type, FracOver(votes, count))

\* make_trading_decision
MakeTradingDecision(sigs) ==
    IF NoSignals(sigs) THEN TradeSignal("hold", Frac(0, 1))
    ELSE LET buy_votes == Votes(sigs, Len(sigs), {"buy"})
             sell_votes == Votes(sigs, Len(sigs), {"sell"})
             total_confidence == Votes(sigs, Len(sigs), OrderTypes)
             half == Frac(1, VoteThresholdInverse)
         IN  IF Outvotes(buy_votes, sell_votes) /\ Outvotes(buy_votes, half)
             THEN Averaged("buy", buy_votes, Len(sigs))
             ELSE IF Outvotes(sell_votes, buy_votes) /\ Outvotes(sell_votes, half)
             THEN Averaged("sell", sell_votes, Len(sigs))
             ELSE Averaged("hold", total_confidence, Len(sigs))

\* signals a caller may hand to make_trading_decision: confidences in steps
\* of 1/ConfidenceSteps, the last one above 1.0
InputConfidences == {Frac(q, ConfidenceSteps) : q \in 0..(ConfidenceSteps + 1)}
InputSignals == {TradeSignal(t, c) : t \in OrderTypes, c \in InputConfidences}
\* every mapping from a set of strategy names to signals, in each insertion order
SignalMaps ==
    {d \in UNION {[1..n -> [name : StrategyNames, signal : InputSignals]] :
                    n \in 0..Cardinality(StrategyNames)} :
        \A i, j \in 1..Len(d) : d[i].name = d[j].name => i = j}

SigInit ==
    /\ active_strategies = <<"sma", "rsi">>
    /\ market_data = NoData
    /\ faulty = {}
    /\ signals = <<>>
    /\ final_signal = NoSignal
    /\ apc = "idle"

\* dashboard update_config: bot.active_strategies = data['active_strategies']
UpdateConfig ==
    /\ apc = "idle"
    /\ \E a \in ActiveLists : active_strategies' = a
    /\ UNCHANGED <<market_data, faulty, signals, final_signal, apc>>
    /\ UNCHANGED tradeSide

\* signals = bot.analyze_symbol(symbol)
AnalyzeSymbolCall ==
    /\ apc = "idle"
    /\ \E data \in FetchedData, raising \in SUBSET StrategyNames :
         /\ market_data' = data
         /\ faulty' = raising
         /\ signals' = AnalyzeSymbol(active_strategies, data, raising)
    /\ apc' = "analyzed"
    /\ UNCHANGED <<active_strategies, final_signal>>
    /\ UNCHANGED tradeSide

\* make_trading_decision called on a mapping the caller built
GivenSignals ==
    /\ apc = "idle"
    /\ \E d \in SignalMaps : signals' = d
    /\ apc' = "given"
    /\ UNCHANGED <<active_strategies, market_data, faulty, final_signal>>
    /\ UNCHANGED tradeSide

\* final_signal = bot.make_trading_decision(signals)
MakeTradingDecisionCall ==
    /\ apc \in {"analyzed", "given"}
    /\ final_signal' = MakeTradingDecision(signals)
    /\ apc' = IF apc = "analyzed" THEN "decided" ELSE "decided_given"
    /\ UNCHANGED <<active_strategies, market_data, faulty, signals>>
    /\ UNCHANGED tradeSide

\* strategy.analyze(symbol, data) called on its own
EvaluateStrategy ==
    /\ apc = "idle"
    /\ \E name \in StrategyNames, data \in StrategyData :
         /\ market_data' = data
         /\ signals' = <<[name |-> name, signal |-> StrategyAnalyze(name, data)]>>
    /\ apc' = "evaluated"
    /\ UNCHANGED <<active_strategies, faulty, final_signal>>
    /\ UNCHANGED tradeSide

\* the caller is done with the result
AnalysisReturn ==
    /\ apc \in {"decided", "decided_given", "evaluated"}
    /\ market_data' = NoData
    /\ faulty' = {}
    /\ signals' = <<>>
    /\ final_signal' = NoSignal
    /\ apc' = "idle"
    /\ UNCHANGED active_strategies
    /\ UNCHANGED tradeSide

SignalNext ==
    \/ UpdateConfig
    \/ AnalyzeSymbolCall
    \/ GivenSignals
    \/ MakeTradingDecisionCall
    \/ EvaluateStrategy
    \/ AnalysisReturn

(***************************************************************************)
(* run_trading_cycle with the analysis of each symbol spelled out          *)
(***************************************************************************)
\* what get_market_data hands to a pass: a failed fetch (no prices) or
\* a series that fills the long window
CyclePrices == {20, 40}
CycleData == [kind : {"list"},
              prices : {<<>>} \cup [1..LongWindow -> CyclePrices]]

\* a gate that lets every final signal through
ReachesMinConfidence_Always(confidence) == TRUE
\* final_signal.confidence >= min_confidence, on the signal's own confidence
ReachesMinConfidence(confidence) ==
    confidence.num * ConfUnit >= MinConfidence * confidence.den

\* signals = self.analyze_symbol(symbol), for symbols[idx]
CycleAnalyze(t) ==
    /\ pc[t] = "cycle"
    /\ loc[t].idx <= Len(TradingSymbols)
    /\ \E data \in CycleData, raising \in SUBSET StrategyNames :
         /\ market_data' = data
         /\ faulty' = raising
         /\ signals' = AnalyzeSymbol(active_strategies, data, raising)
    /\ final_signal' = NoSignal
    /\ apc' = "analyzed"
    /\ pc' = [pc EXCEPT ![t] = "cycle_decide"]
    /\ UNCHANGED <<is_running, is_authenticated, rh_session, trades, snapshots,
                   orders, loc, attempts>>
    /\ UNCHANGED <<approved, riskVars, ledgerVars, bootVars, active_strategies>>

\* if not signals: continue; final_signal = make_trading_decision(signals);
\* execute_trade when the confidence reaches min_confidence
CycleDecide(t) ==
    /\ pc[t] = "cycle_decide"
    /\ IF NoSignals(signals)
       THEN /\ loc' = [loc EXCEPT ![t].idx = NextIndex(loc[t].idx, "nosignals"),
                                  ![t].last = PassResult("nosignals"),
                                  ![t].handled = Append(@, TradingSymbols[loc[t].idx])]
            /\ pc' = [pc EXCEPT ![t] = "cycle"]
            /\ UNCHANGED <<final_signal, attempts>>
       ELSE /\ final_signal' = MakeTradingDecision(signals)
            /\ IF ReachesMinConfidence(final_signal'.confidence)
               THEN /\ attempts < MaxAttempts
                    /\ attempts' = attempts + 1
                    /\ loc' = [loc EXCEPT ![t].symbol = TradingSymbols[loc[t].idx],
                                          ![t].order_type = final_signal'.order_type,
                                          ![t].confidence = final_signal'.confidence,
                                          ![t].handled = Append(@, TradingSymbols[loc[t].idx])]
                    /\ pc' = [pc EXCEPT ![t] = "et_auth"]
               ELSE /\ loc' = [loc EXCEPT ![t].idx = NextIndex(loc[t].idx, "lowconf"),
                                          ![t].last = PassResult("lowconf"),
                                          ![t].handled = Append(@, TradingSymbols[loc[t].idx])]
                    /\ pc' = [pc EXCEPT ![t] = "cycle"]
                    /\ UNCHANGED attempts
    /\ apc' = "decided"
    /\ UNCHANGED <<is_running, is_authenticated, rh_session, trades, snapshots, orders>>
    /\ UNCHANGED <<approved, riskVars, ledgerVars, bootVars>>
    /\ UNCHANGED <<active_strategies, market_data, faulty, signals>>

(***************************************************************************)
(* TradingDatabase: log_trade and update_trade_status called on their own  *)
(***************************************************************************)
\* the arguments of a log_trade call, as execute_trade's locals
LedgerInputs ==
    {[NoLoc EXCEPT !.symbol = "AAPL", !.order_type = "buy", !.confidence = 8,
                   !.amount = 100, !.price = 50, !.order_id = 1,
                   !.caller = "cycle"],
     [NoLoc EXCEPT !.symbol = "MSFT", !.order_type = "sell",
                   !.confidence = ConfUnit, !.amount = 50, !.price = 50,
                   !.caller = "manual"]}
\* the status texts a caller passes, the executed_at and order_id arguments
\* (0 is None)
StatusTexts == {"pending", "executed", "failed"}
ExecutedAtArgs == {0, 1}
OrderIdArgs == {0, 7}

\* SET status = ?, executed_at = ?, order_id = COALESCE(?, order_id)
SetClause(row, status, executed_at, order_id) ==
    [row EXCEPT !.status = status, !.executed_at = executed_at,
                !.order_id = IF order_id # 0 THEN order_id ELSE @]

\* an update without its WHERE clause
Addressed_Every(row, trade_id) == TRUE
\* WHERE id = ?
Addressed(row, trade_id) == row.id = trade_id

\* UPDATE trades SET ... WHERE id = ?
UpdateRows(table, trade_id, status, executed_at, order_id) ==
    [i \in 1..Len(table) |->
        IF Addressed(table[i], trade_id)
        THEN SetClause(table[i], status, executed_at, order_id)
        ELSE table[i]]

\* the clock moves on between two calls
ClockTick ==
    /\ clock < MaxClock
    /\ clock' = clock + 1
    /\ UNCHANGED lastOp
    /\ UNCHANGED <<botVars, approved, riskVars, sigVars, bootVars>>

\* log_trade(...): INSERT and return cursor.lastrowid, or raise
LogTrade ==
    /\ Len(trades) < MaxRows
    /\ \E l \in LedgerInputs, answer \in {"ok", "raise"} :
        IF answer = "ok"
        THEN /\ trades' = Append(trades, TradeRow(Len(trades) + 1, l, clock))
             /\ lastOp' = [op |-> "log", id |-> Len(trades) + 1, status |-> "",
                           before |-> trades, repeated |-> FALSE,
                           updates |-> lastOp.updates]
        ELSE /\ trades' = trades
             /\ lastOp' = [op |-> "log_raised", id |-> 0, status |-> "",
                           before |-> trades, repeated |-> FALSE,
                           updates |-> lastOp.updates]
    /\ UNCHANGED clock
    /\ UNCHANGED <<is_running, is_authenticated, rh_session, snapshots, orders,
                   pc, loc, attempts>>
    /\ UNCHANGED <<approved, riskVars, sigVars, bootVars>>

\* update_trade_status(trade_id, status, executed_at, order_id), or raise
UpdateTradeStatus ==
    /\ lastOp.updates < MaxUpdates
    /\ \E trade_id \in 1..(MaxRows + 1), status \in StatusTexts,
          at \in ExecutedAtArgs, order_id \in OrderIdArgs,
          answer \in {"ok", "raise"} :
        IF answer = "ok"
        THEN /\ trades' = UpdateRows(trades, trade_id, status,
                                     IF at = 0 THEN clock ELSE at, order_id)
             /\ lastOp' = [op |-> "update", id |-> trade_id, status |-> status,
                           before |-> trades,
                           repeated |-> /\ lastOp.op = "update"
                                        /\ lastOp.id = trade_id
                                        /\ lastOp.status = status,
                           updates |-> lastOp.updates + 1]
        ELSE /\ trades' = trades
             /\ lastOp' = [op |-> "update_raised", id |-> trade_id,
                           status |-> status, before |-> trades,
                           repeated |-> FALSE,
                           updates |-> lastOp.updates + 1]
    /\ UNCHANGED clock
    /\ UNCHANGED <<is_running, is_authenticated, rh_session, snapshots, orders,
                   pc, loc, attempts>>
    /\ UNCHANGED <<approved, riskVars, sigVars, bootVars>>

LedgerNext ==
    \/ ClockTick
    \/ LogTrade
    \/ UpdateTradeStatus

(***************************************************************************)
(* main(): the bootstrap, the scheduler loop and the dashboard's requests  *)
(***************************************************************************)
\* what main and its scheduler never touch
mainSide == <<approved, riskVars, sigVars, ledgerVars>>

\* the thread that runs schedule.run_pending(): the background thread
\* run_scheduler in web mode, main itself in daemon mode
SchedThread == IF args.mode = "web" THEN "sched" ELSE "main"

\* if args.analyze_only: config['auto_trade'] = False; then the branch on
\* args.mode: web mode starts the bot only when auto_trade is set, cli and
\* daemon mode start it always
MainParse ==
    /\ mpc = "parse"
    /\ auto_trade' = IF args.analyze_only THEN FALSE ELSE auto_trade
    /\ mpc' = IF args.mode = "web" /\ ~auto_trade' THEN "serve" ELSE "call_start"
    /\ UNCHANGED <<args, spc, stopped>>
    /\ UNCHANGED <<botVars, mainSide>>

\* bot.start() is called by main
MainCallStart ==
    /\ mpc = "call_start"
    /\ pc["main"] = "idle"
    /\ pc' = [pc EXCEPT !["main"] = "start_login"]
    /\ mpc' = "await_start"
    /\ UNCHANGED <<args, auto_trade, spc, stopped>>
    /\ UNCHANGED <<is_running, is_authenticated, rh_session, trades, snapshots, orders,
                   loc, attempts>>
    /\ UNCHANGED mainSide

\* bot.start() has returned to main; no other thread exists yet, so it
\* returned True exactly when is_running is set. True: the jobs are
\* scheduled and the scheduler loop begins (web, daemon), or the loop over
\* the symbols begins (cli). False: web mode goes on to the dashboard, cli
\* and daemon mode return 1
MainStartReturned ==
    /\ mpc = "await_start"
    /\ pc["main"] = "idle"
    /\ IF is_running
       THEN CASE args.mode = "web" -> /\ mpc' = "serve"
                                      /\ spc' = "check"
                                      /\ UNCHANGED <<pc, loc>>
              [] args.mode = "daemon" -> /\ mpc' = "daemon"
                                         /\ spc' = "check"
                                         /\ UNCHANGED <<pc, loc>>
              [] args.mode = "cli" -> /\ mpc' = "cli"
                                      /\ spc' = spc
                                      /\ pc' = [pc EXCEPT !["main"] = "cli"]
                                      /\ loc' = [loc EXCEPT !["main"] =
                                                   [NoLoc EXCEPT !.caller = "cli", !.idx = 1]]
       ELSE /\ mpc' = IF args.mode = "web" THEN "serve" ELSE "done"
            /\ UNCHANGED <<spc, pc, loc>>
    /\ UNCHANGED <<args, auto_trade, stopped>>
    /\ UNCHANGED <<is_running, is_authenticated, rh_session, trades, snapshots, orders,
                   attempts>>
    /\ UNCHANGED mainSide

\* web mode: while bot.is_running; daemon mode: while True
LoopCondition == IF args.mode = "web" THEN is_running ELSE TRUE

\* the scheduler loop tests its condition; the web mode's thread ends when
\* the bot is not running
SchedLoopCheck ==
    /\ mpc \in {"serve", "daemon"}
    /\ spc = "check"
    /\ spc' = IF LoopCondition THEN "pending" ELSE "exit"
    /\ UNCHANGED <<args, auto_trade, mpc, stopped>>
    /\ UNCHANGED <<botVars, mainSide>>

\* schedule.run_pending() finds no job due; time.sleep(60)
SchedNothingDue ==
    /\ mpc \in {"serve", "daemon"}
    /\ spc = "pending"
    /\ spc' = "check"
    /\ UNCHANGED <<args, auto_trade, mpc, stopped>>
    /\ UNCHANGED <<botVars, mainSide>>

\* a run_scheduled_trading that never skips
SkipsTrigger_Never(running) == FALSE
\* if not bot.is_running: return
SkipsTrigger(running) == ~running

\* schedule.run_pending() finds a job due and calls run_scheduled_trading:
\* it returns at once when the bot is not running, and calls
\* bot.run_trading_cycle(symbols) otherwise
SchedTrigger ==
    /\ mpc \in {"serve", "daemon"}
    /\ spc = "pending"
    /\ IF SkipsTrigger(is_running)
       THEN /\ spc' = "skipped"
            /\ UNCHANGED <<pc, loc>>
       ELSE /\ spc' = "running"
            /\ pc' = [pc EXCEPT ![SchedThread] = "cycle"]
            /\ loc' = [loc EXCEPT ![SchedThread] =
                         [NoLoc EXCEPT !.caller = "cycle", !.idx = 1,
                                       !.snap0 = snapshots]]
    /\ UNCHANGED <<args, auto_trade, mpc, stopped>>
    /\ UNCHANGED <<is_running, is_authenticated, rh_session, trades, snapshots, orders,
                   attempts>>
    /\ UNCHANGED mainSide

\* the job has returned to the loop; time.sleep(60)
SchedSleep ==
    /\ mpc \in {"serve", "daemon"}
    /\ spc \in {"skipped", "running"}
    /\ pc[SchedThread] = "idle"
    /\ spc' = "check"
    /\ UNCHANGED <<args, auto_trade, mpc, stopped>>
    /\ UNCHANGED <<botVars, mainSide>>

\* dashboard /api/start while the dashboard runs
ServeStart(t) ==
    /\ mpc = "serve"
    /\ StartBegin(t)

\* dashboard /api/stop while the dashboard runs: self.trading_bot.stop()
\* begins with self.is_running = False
ServeStop(t) ==
    /\ mpc = "serve"
    /\ pc[t] = "idle"
    /\ is_running' = FALSE
    /\ pc' = [pc EXCEPT ![t] = "stop_logout"]
    /\ stopped' = TRUE
    /\ UNCHANGED <<args, auto_trade, mpc, spc>>
    /\ UNCHANGED <<is_authenticated, rh_session, trades, snapshots, orders, loc, attempts>>
    /\ UNCHANGED mainSide

\* dashboard /api/trade while the dashboard runs
ServeTrade(t) ==
    /\ mpc = "serve"
    /\ ManualTrade(t)

\* if not args.analyze_only and final_signal.confidence >= config['min_confidence']
CliExecutes(analyze_only, confidence) == ~analyze_only /\ Qualifies(confidence)

\* cli mode, one pass of the loop over the symbols: no signals, an
\* exception (not caught: the finally clause runs), or a final signal that
\* is executed when analyze_only is off and its confidence suffices
CliSymbol ==
    /\ mpc = "cli"
    /\ pc["main"] = "cli"
    /\ loc["main"].idx <= Len(TradingSymbols)
    /\ \/ /\ loc' = [loc EXCEPT !["main"].idx = @ + 1]
          /\ UNCHANGED <<pc, attempts>>
       \/ /\ pc' = [pc EXCEPT !["main"] = "cli_finally"]
          /\ UNCHANGED <<loc, attempts>>
       \/ \E s \in FinalSignals :
            IF CliExecutes(args.analyze_only, s.confidence)
            THEN /\ attempts < MaxAttempts
                 /\ attempts' = attempts + 1
                 /\ loc' = [loc EXCEPT !["main"].symbol = TradingSymbols[loc["main"].idx],
                                       !["main"].order_type = s.order_type,
                                       !["main"].confidence = s.confidence]
                 /\ pc' = [pc EXCEPT !["main"] = "et_auth"]
            ELSE /\ loc' = [loc EXCEPT !["main"].idx = @ + 1]
                 /\ UNCHANGED <<pc, attempts>>
    /\ UNCHANGED bootVars
    /\ UNCHANGED <<is_running, is_authenticated, rh_session, trades, snapshots, orders>>
    /\ UNCHANGED mainSide

\* finally: bot.stop(), reached at the end of the cli loop or by the
\* exception that ended it, and in web and daemon mode by a
\* KeyboardInterrupt (taken here between the requests and the jobs)
MainFinally ==
    /\ \/ /\ mpc = "cli"
          /\ \/ pc["main"] = "cli" /\ loc["main"].idx > Len(TradingSymbols)
             \/ pc["main"] = "cli_finally"
       \/ /\ mpc \in {"serve", "daemon"}
          /\ \A t \in Threads : pc[t] = "idle"
    /\ is_running' = FALSE
    /\ pc' = [pc EXCEPT !["main"] = "stop_logout"]
    /\ loc' = [loc EXCEPT !["main"] = NoLoc]
    /\ mpc' = "stopping"
    /\ UNCHANGED <<args, auto_trade, spc, stopped>>
    /\ UNCHANGED <<is_authenticated, rh_session, trades, snapshots, orders, attempts>>
    /\ UNCHANGED mainSide

\* bot.stop() has returned: "Trading bot stopped", return 0
MainExit ==
    /\ mpc = "stopping"
    /\ pc["main"] = "idle"
    /\ mpc' = "done"
    /\ UNCHANGED <<args, auto_trade, spc, stopped>>
    /\ UNCHANGED <<botVars, mainSide>>

(***************************************************************************)
(* Specifications                                                          *)
(***************************************************************************)
\* the state after TradingBot(config) is constructed
BotInit ==
    /\ is_running = FALSE
    /\ is_authenticated = FALSE
    /\ rh_session = FALSE
    /\ trades = <<>>
    /\ snapshots = 0
    /\ orders = <<>>
    /\ pc = [t \in Threads |-> "idle"]
    /\ loc = [t \in Threads |-> NoLoc]
    /\ attempts = 0
    /\ approved = {}
    /\ clock = 1
    /\ lastOp = NoOp

\* the state after RiskManager(config) is constructed, with
\* max_position_size one of limits
RiskInit(limits) ==
    /\ daily_loss = 0
    /\ today = 0
    /\ last_reset_date = 0
    /\ max_position_size \in limits
    /\ rpc = [t \in RiskCallers |-> "idle"]
    /\ rloc = [t \in RiskCallers |-> NoRLoc]
    /\ sumByDate = [d \in Days |-> 0]
    /\ resets = [d \in Days |-> 0]
    /\ lossCalls = 0

\* main() has not been entered: the bot, the risk manager and the analysis
\* are taken on their own
NoArgs == [mode |-> "web", analyze_only |-> FALSE]
BootIdle ==
    /\ args = NoArgs
    /\ auto_trade = FALSE
    /\ mpc = "none"
    /\ spc = "none"
    /\ stopped = FALSE

\* main() is entered: args = parser.parse_args(), config = load_config()
BootInit ==
    /\ args \in [mode : Modes, analyze_only : BOOLEAN]
    /\ auto_trade \in BOOLEAN
    /\ mpc = "parse"
    /\ spc = "none"
    /\ stopped = FALSE

Init == BotInit /\ RiskInit({DefaultMaxPositionSize}) /\ SigInit /\ BootIdle
InitRisk == BotInit /\ RiskInit(PositionSizeLimits) /\ SigInit /\ BootIdle
InitMain == BotInit /\ RiskInit({DefaultMaxPositionSize}) /\ SigInit /\ BootInit

\* the bot: the scheduler thread and the dashboard's request threads
Next ==
    \/ \E t \in Operators :
        \/ StartBegin(t)
        \/ StopBegin(t)
        \/ ManualTrade(t)
    \/ \E t \in Schedulers :
        \/ RunScheduledTrading(t)
        \/ CycleSymbol(t)
        \/ CycleEnd(t)
        \/ LogSnapshot(t)
        \/ SchedReturn(t)
    \/ \E t \in Threads :
        \/ StartLoginDone(t)
        \/ StartSetAuth(t)
        \/ StartSetRunning(t)
        \/ StopLogout(t)
        \/ StopSetAuth(t)
        \/ StopReturn(t)
        \/ EtAuth(t)
        \/ EtPortfolio(t)
        \/ EtPositions(t)
        \/ EtOrder(t)
        \/ EtPrice(t)
        \/ EtLog(t)
        \/ EtReturn(t)

Spec == Init /\ [][Next]_vars

\* the scheduled cycle alone: the scheduler thread, and the dashboard's
\* start and stop requests running beside it
CycleNext ==
    \/ \E t \in Operators :
        \/ StartBegin(t)
        \/ StopBegin(t)
    \/ \E t \in Schedulers :
        \/ RunScheduledTrading(t)
        \/ CycleSymbol(t)
        \/ CycleEnd(t)
        \/ LogSnapshot(t)
        \/ SchedReturn(t)
    \/ \E t \in Threads :
        \/ StartLoginDone(t)
        \/ StartSetAuth(t)
        \/ StartSetRunning(t)
        \/ StopLogout(t)
        \/ StopSetAuth(t)
        \/ StopReturn(t)
        \/ EtAuth(t)
        \/ EtPortfolio(t)
        \/ EtPositions(t)
        \/ EtOrder(t)
        \/ EtPrice(t)
        \/ EtLog(t)
        \/ EtReturn(t)

SpecCycle == Init /\ [][CycleNext]_vars

\* the analysis on its own: configuration changes, analyses, decisions
SpecSignals == Init /\ [][SignalNext]_vars

\* the scheduled cycle of a started bot, each pass analysed from fetched data
AnalysedCycleNext ==
    \/ \E t \in Operators :
        \/ StartBegin(t)
    \/ \E t \in Schedulers :
        \/ RunScheduledTrading(t)
        \/ CycleAnalyze(t)
        \/ CycleDecide(t)
        \/ CycleEnd(t)
        \/ LogSnapshot(t)
        \/ SchedReturn(t)
    \/ \E t \in Threads :
        \/ StartLoginDone(t)
        \/ StartSetAuth(t)
        \/ StartSetRunning(t)
        \/ EtAuth(t)
        \/ EtPortfolio(t)
        \/ EtPositions(t)
        \/ EtOrder(t)
        \/ EtPrice(t)
        \/ EtLog(t)
        \/ EtReturn(t)

SpecAnalysedCycle == Init /\ [][AnalysedCycleNext]_vars

\* two dashboard requests at a time: start, stop and manual trades
RequestsNext ==
    \/ \E t \in Requesters :
        \/ StartBegin(t)
        \/ StopBegin(t)
        \/ ManualTrade(t)
    \/ \E t \in Threads :
        \/ StartLoginDone(t)
        \/ StartSetAuth(t)
        \/ StartSetRunning(t)
        \/ StopLogout(t)
        \/ StopSetAuth(t)
        \/ StopReturn(t)
        \/ EtAuth(t)
        \/ EtPortfolio(t)
        \/ EtPositions(t)
        \/ EtOrder(t)
        \/ EtPrice(t)
        \/ EtLog(t)
        \/ EtReturn(t)

SpecRequests == Init /\ [][RequestsNext]_vars

\* execute_trade on a started bot: the operator starts the bot and sends
\* manual trades
TradeNext ==
    \/ \E t \in Operators :
        \/ StartBegin(t)
        \/ ManualTrade(t)
    \/ \E t \in Threads :
        \/ StartLoginDone(t)
        \/ StartSetAuth(t)
        \/ StartSetRunning(t)
        \/ EtAuth(t)
        \/ EtPortfolio(t)
        \/ EtPositions(t)
        \/ EtOrder(t)
        \/ EtPrice(t)
        \/ EtLog(t)
        \/ EtReturn(t)

SpecTrade == Init /\ [][TradeNext]_vars

\* the ledger on its own: rows logged and statuses updated by a caller
SpecLedger == Init /\ [][LedgerNext]_vars

\* the program from main(): the bootstrap in each mode, the scheduler loop,
\* and in web mode the operator's requests
MainNext ==
    \/ MainParse
    \/ MainCallStart
    \/ MainStartReturned
    \/ SchedLoopCheck
    \/ SchedNothingDue
    \/ SchedTrigger
    \/ SchedSleep
    \/ CliSymbol
    \/ MainFinally
    \/ MainExit
    \/ \E t \in Operators :
        \/ ServeStart(t)
        \/ ServeStop(t)
        \/ ServeTrade(t)
    \/ \E t \in Threads :
        \/ CycleSymbol(t)
        \/ CycleEnd(t)
        \/ LogSnapshot(t)
        \/ SchedReturn(t)
        \/ StartLoginDone(t)
        \/ StartSetAuth(t)
        \/ StartSetRunning(t)
        \/ StopLogout(t)
        \/ StopSetAuth(t)
        \/ StopReturn(t)
        \/ EtAuth(t)
        \/ EtPortfolio(t)
        \/ EtPositions(t)
        \/ EtOrder(t)
        \/ EtPrice(t)
        \/ EtLog(t)
        \/ EtReturn(t)

SpecMain == InitMain /\ [][MainNext]_vars

\* web mode with AUTO_TRADE set: python main.py --mode web
InitWeb ==
    /\ BotInit /\ RiskInit({DefaultMaxPositionSize}) /\ SigInit
    /\ args = [mode |-> "web", analyze_only |-> FALSE]
    /\ auto_trade = TRUE
    /\ mpc = "parse"
    /\ spc = "none"
    /\ stopped = FALSE

\* what a thread does once it has begun a call: the steps of start() and
\* stop(), of a trading cycle and of execute_trade
Continue(t) ==
    \/ StartLoginDone(t)
    \/ StartSetAuth(t)
    \/ StartSetRunning(t)
    \/ StopLogout(t)
    \/ StopSetAuth(t)
    \/ StopReturn(t)
    \/ CycleSymbol(t)
    \/ CycleEnd(t)
    \/ LogSnapshot(t)
    \/ SchedReturn(t)
    \/ EtAuth(t)
    \/ EtPortfolio(t)
    \/ EtPositions(t)
    \/ EtOrder(t)
    \/ EtPrice(t)
    \/ EtLog(t)
    \/ EtReturn(t)

\* web mode: the bootstrap, the scheduler thread and the operator's start
\* and stop requests
WebNext ==
    \/ MainParse
    \/ MainCallStart
    \/ MainStartReturned
    \/ SchedLoopCheck
    \/ SchedNothingDue
    \/ SchedTrigger
    \/ SchedSleep
    \/ \E t \in Operators :
        \/ ServeStart(t)
        \/ ServeStop(t)
    \/ \E t \in Threads : Continue(t)

SpecWeb == InitWeb /\ [][WebNext]_vars

\* every thread that runs goes on running: calls in progress take their
\* next step, the scheduler loop wakes up from its sleep, and scheduled
\* times keep arriving (a job is due again and again); the operator is free
\* to send requests or not
SpecWebLive ==
    /\ SpecWeb
    /\ WF_vars(MainParse)
    /\ WF_vars(MainCallStart)
    /\ WF_vars(MainStartReturned)
    /\ WF_vars(SchedLoopCheck)
    /\ WF_vars(SchedSleep)
    /\ SF_vars(SchedTrigger)
    /\ \A t \in Threads : WF_vars(Continue(t))

\* the risk manager's methods that touch RiskState, called from concurrent
\* threads (the scheduler and the request handlers)
RiskConcurrentNext ==
    \/ Tick
    \/ \E t \in RiskCallers :
        \/ CanTradeBegin(TRUE, t)
        \/ UpdateDailyLossBegin(TRUE, t)
        \/ GetRiskMetricsBegin(TRUE, t)
        \/ ResetReadDate(t)
        \/ ResetCompare(t)
        \/ ResetZero(t)
        \/ ResetSetDate(t)
        \/ CanTradeDecide(TRUE, t)
        \/ CanTradeReturn(t)
        \/ UpdateDailyLossRead(t)
        \/ UpdateDailyLossWrite(t)
        \/ GetRiskMetricsRead(t)

\* the risk manager's methods, called one after the other
RiskSequentialNext ==
    \/ Tick
    \/ \E t \in RiskCallers :
        \/ CanTradeBegin(FALSE, t)
        \/ UpdateDailyLossBegin(FALSE, t)
        \/ GetRiskMetricsBegin(FALSE, t)
        \/ CalculatePositionSize(FALSE, t)
        \/ ResetReadDate(t)
        \/ ResetCompare(t)
        \/ ResetZero(t)
        \/ ResetSetDate(t)
        \/ CanTradeDecide(FALSE, t)
        \/ CanTradeReturn(t)
        \/ UpdateDailyLossRead(t)
        \/ UpdateDailyLossWrite(t)
        \/ GetRiskMetricsRead(t)
        \/ CalculatePositionSizeReturn(t)

SpecRisk == Init /\ [][RiskConcurrentNext]_vars
SpecRiskSeq == InitRisk /\ [][RiskSequentialNext]_vars

(***************************************************************************)
(* Properties: the orchestrator and the ledger                             *)
(***************************************************************************)
\* the rows of the trades table
TradeIds == 1..Len(trades)

\* C1: every order the broker accepted, on the scheduled cycle and on a
\* manual trade alike, was approved before by the risk gate for the same
\* symbol, action and amount
C1_OrderOnlyAfterApproval ==
    \A i \in 1..Len(orders) :
        <<orders[i].symbol, orders[i].order_type, orders[i].amount>> \in approved

\* C2: when a trade attempt returns, its record is in a terminal status:
\* executed, with the broker's order id, when the order was accepted, and
\* failed when the order was refused or raised
C2_RecordReachesTerminalStatus ==
    \A t \in Threads :
        pc[t] = "et_ret" =>
            /\ loc[t].outcome = "accepted" =>
                \E i \in TradeIds : /\ trades[i].order_id = loc[t].order_id
                                    /\ trades[i].status = "executed"
            /\ loc[t].outcome \in {"refused", "raised"} =>
                \E i \in TradeIds : /\ trades[i].symbol = loc[t].symbol
                                    /\ trades[i].order_type = loc[t].order_type
                                    /\ trades[i].status = "failed"

\* C10: when stop() returns, no record of the trades table is pending: each
\* one is executed or failed
C10_StopLeavesNoPendingRecord ==
    \A t \in Threads :
        pc[t] = "stop_ret" =>
            \A i \in TradeIds : trades[i].status \in {"executed", "failed"}

\* C11: run_trading_cycle takes every symbol exactly once and in order and
\* returns normally: while it runs the symbols taken are a prefix of the
\* list, one per pass, and when it returns they are the whole list, also
\* after a pass that failed
C11_CycleHandlesEverySymbol ==
    \A t \in Schedulers :
        /\ loc[t].caller = "cycle" =>
              /\ Len(loc[t].handled) <= Len(TradingSymbols)
              /\ loc[t].handled = SubSeq(TradingSymbols, 1, Len(loc[t].handled))
        /\ pc[t] = "cycle" => Len(loc[t].handled) = loc[t].idx - 1
        /\ pc[t] \in {"snapshot", "sched_ret"} => loc[t].handled = TradingSymbols

\* C11 witness: the first symbol's pass failed and the second symbol's
\* order is accepted and logged in the same cycle
C11_Witness ==
    \E t \in Schedulers :
        /\ pc[t] = "et_ret"
        /\ loc[t].caller = "cycle"
        /\ loc[t].idx = 2
        /\ loc[t].last = "fault"
        /\ loc[t].outcome = "accepted"

\* C13: when run_scheduled_trading returns after a cycle, exactly one row
\* has been added to portfolio_snapshots since the cycle began
C13_OneSnapshotPerCycle ==
    \A t \in Schedulers :
        pc[t] = "sched_ret" => snapshots = loc[t].snap0 + 1

\* C14: every order placed by a cycle, and every row of the trades table,
\* belongs to a buy or sell signal whose confidence reaches min_confidence;
\* while a pass whose signal is hold is inside execute_trade nothing of it
\* reaches the broker or the ledger
C14_NoTradeBelowThreshold ==
    /\ \A i \in 1..Len(orders) :
          orders[i].caller = "cycle" =>
              /\ orders[i].confidence >= MinConfidence
              /\ orders[i].order_type \in {"buy", "sell"}
    /\ \A i \in TradeIds :
          /\ trades[i].confidence >= MinConfidence
          /\ trades[i].order_type \in {"buy", "sell"}
    /\ \A t \in Schedulers :
          (loc[t].caller = "cycle" /\ loc[t].order_type = "hold") =>
              pc[t] \in {"cycle", "et_auth", "et_ret", "snapshot", "sched_ret"}

\* C14 witness: a pass whose signal was too weak, or was hold, has ended
\* and there is no order and no record
C14_Witness ==
    \E t \in Schedulers :
        /\ pc[t] = "cycle"
        /\ loc[t].last = "nothing"
        /\ loc[t].idx = Len(TradingSymbols) + 1
        /\ orders = <<>>
        /\ trades = <<>>

(***************************************************************************)
(* Properties: the risk manager under concurrent callers                   *)
(***************************************************************************)
\* C3: concurrent can_trade calls behave as if they were serialized: a call
\* that starts (reads the date) when the day's losses and the counter already
\* reach max_daily_loss, while the only other calls in flight are can_trade
\* calls, and that returns on that same day, is rejected; so two concurrent
\* callers never both pass the daily-loss check where one after the other
\* at most one could
C3_ApproveSerialized ==
    \A t \in RiskCallers :
        ( /\ rpc[t] = "ct_ret"
          /\ rloc[t].atLimit
          /\ rloc[t].amongApprovals
          /\ rloc[t].cd = today ) => ~rloc[t].result

\* C4: no realized loss is lost: whenever no call is in flight, daily_loss
\* is the sum of the losses recorded for the day of the last reset
C4_NoLossLost ==
    (\A t \in RiskCallers : rpc[t] = "idle") => daily_loss = sumByDate[last_reset_date]

\* C5: the daily counter is reset at most once for each calendar date, and
\* never for the date the manager was created on
C5_ResetOncePerDay ==
    \A d \in Days : resets[d] <= (IF d = 0 THEN 0 ELSE 1)

(***************************************************************************)
(* Properties: the risk manager, calls made one after the other            *)
(***************************************************************************)
\* the claims' reading of the checks, stated on the inputs of a finished
\* can_trade call c and not through the code's operators
OversizeOf(c) == c.amount > max_position_size
PositionsFullOf(c) == c.action = "buy" /\ c.pos.n >= MaxPositions
OverPortfolioShareOf(c) == c.amount * 100 > c.pf.value * RiskPercentage
\* the losses recorded on the day the call read
DayLossOf(c) == sumByDate[c.cd]
\* an earlier day on which the losses recorded reached max_daily_loss
LimitHitBefore(c) == \E d \in Days : d < c.cd /\ sumByDate[d] >= MaxDailyLoss

\* C6: a can_trade call made on a day whose recorded losses reach
\* max_daily_loss is rejected, whatever its symbol, action and amount; a call
\* made on a later day, before that day's losses reach the limit, is approved
\* when it passes the other checks
C6_DailyResetLaw ==
    \A t \in RiskCallers :
        rpc[t] = "ct_ret" =>
            /\ DayLossOf(rloc[t]) >= MaxDailyLoss => ~rloc[t].result
            /\ ( /\ LimitHitBefore(rloc[t])
                 /\ DayLossOf(rloc[t]) < MaxDailyLoss
                 /\ ~OversizeOf(rloc[t])
                 /\ rloc[t].action = "sell" \/ (rloc[t].pos.kind = "ok" /\ ~PositionsFullOf(rloc[t]))
                 /\ rloc[t].pf.kind # "ok" \/ rloc[t].pf.value <= 0 \/ ~OverPortfolioShareOf(rloc[t])
               ) => rloc[t].result

\* C6 witness: the limit was reached on day 0 and a call on day 1 is approved
C6_Witness ==
    \E t \in RiskCallers :
        /\ rpc[t] = "ct_ret"
        /\ LimitHitBefore(rloc[t])
        /\ rloc[t].result

\* C7: can_trade rejects every amount above max_position_size
C7_OversizeRejected ==
    \A t \in RiskCallers :
        (rpc[t] = "ct_ret" /\ OversizeOf(rloc[t])) => ~rloc[t].result

\* C7 witness: an oversize sell that every other check would let through
C7_Witness ==
    \E t \in RiskCallers :
        /\ rpc[t] = "ct_ret"
        /\ OversizeOf(rloc[t])
        /\ DayLossOf(rloc[t]) < MaxDailyLoss
        /\ rloc[t].action = "sell"
        /\ rloc[t].pf.kind = "none"
        /\ ~rloc[t].result

\* the first failing check of the claimed order, for a call whose
\* position count was obtained; skipPortfolio says when check 5 is skipped
FirstFailing(c, skipPortfolio) ==
    IF DayLossOf(c) >= MaxDailyLoss THEN "daily_loss"
    ELSE IF OversizeOf(c) THEN "position_size"
    ELSE IF PositionsFullOf(c) THEN "positions"
    ELSE IF ~skipPortfolio /\ OverPortfolioShareOf(c) THEN "portfolio"
    ELSE "ok"

RawPosition(c) == c.pf.value * RiskPercentage * (ConfUnit + c.conf)
PortfolioKnown(c) == c.pf.kind = "ok" /\ c.pf.value > 0

\* C9 as claimed: with a portfolio value the size is
\* base * (0.5 + confidence * 0.5) clamped to [10, max_position_size], so
\* 10 <= r <= max_position_size; without one it is the default trade amount
C9_PositionSizeInRange_Claimed ==
    \A t \in RiskCallers :
        rpc[t] = "ps_ret" =>
            IF PortfolioKnown(rloc[t])
            THEN /\ rloc[t].amt >= MinTradeAmount * PosScale
                 /\ rloc[t].amt <= max_position_size * PosScale
                 /\ (RawPosition(rloc[t]) >= MinTradeAmount * PosScale
                       /\ RawPosition(rloc[t]) <= max_position_size * PosScale)
                       => rloc[t].amt = RawPosition(rloc[t])
            ELSE rloc[t].amt = DefaultTradeAmount * PosScale

\* C9 amended: with a portfolio value the size is at least 10; it is at most
\* max_position_size when max_position_size >= 10 and is exactly 10 when
\* max_position_size < 10; it is base * (0.5 + confidence * 0.5) when that
\* lies in [10, max_position_size]; without a portfolio value it is the
\* default trade amount
C9_PositionSizeInRange ==
    \A t \in RiskCallers :
        rpc[t] = "ps_ret" =>
            IF PortfolioKnown(rloc[t])
            THEN /\ rloc[t].amt >= MinTradeAmount * PosScale
                 /\ max_position_size >= MinTradeAmount
                       => rloc[t].amt <= max_position_size * PosScale
                 /\ max_position_size < MinTradeAmount
                       => rloc[t].amt = MinTradeAmount * PosScale
                 /\ (RawPosition(rloc[t]) >= MinTradeAmount * PosScale
                       /\ RawPosition(rloc[t]) <= max_position_size * PosScale)
                       => rloc[t].amt = RawPosition(rloc[t])
            ELSE rloc[t].amt = DefaultTradeAmount * PosScale

\* C9 witness: a size that was cut down to max_position_size
C9_Witness ==
    \E t \in RiskCallers :
        /\ rpc[t] = "ps_ret"
        /\ PortfolioKnown(rloc[t])
        /\ RawPosition(rloc[t]) > max_position_size * PosScale
        /\ max_position_size >= MinTradeAmount
        /\ rloc[t].amt = max_position_size * PosScale

\* the strategies analyze_symbol runs: the active names that are registered
ActiveStrategies == {active_strategies[i] : i \in 1..Len(active_strategies)}
                        \cap StrategyNames

\* C12: after an analysis in which some strategies raised, the signals hold
\* one entry per active strategy that did not raise, each the signal that
\* strategy gives on the fetched data, and no entry for a strategy that raised;
\* the analysis itself returns
C12_RaisingStrategyExcluded ==
    apc \in {"analyzed", "decided"} =>
        /\ Keys(signals) = ActiveStrategies \ faulty
        /\ \A i, j \in 1..Len(signals) :
              signals[i].name = signals[j].name => i = j
        /\ \A i \in 1..Len(signals) :
              signals[i].signal = StrategyAnalyze(signals[i].name, market_data)

\* the moving-average strategy raised, the oscillator's Buy is the only entry
C12_Witness ==
    /\ apc = "analyzed"
    /\ active_strategies = <<"sma", "rsi">>
    /\ faulty = {"sma"}
    /\ Len(signals) = 1
    /\ signals[1].name = "rsi"
    /\ signals[1].signal.order_type = "buy"

\* a decision has been returned for the signals at hand
Decided == apc \in {"decided", "decided_given"}

\* the sum of the confidences of the signals at the positions in I
RECURSIVE ScoreOver(_, _)
ScoreOver(sigs, I) ==
    IF I = {} THEN Frac(0, 1)
    ELSE LET i == CHOOSE x \in I : TRUE
         IN  FracAdd(sigs[i].signal.confidence, ScoreOver(sigs, I \ {i}))
\* the score of the signals whose action is in types
Score(sigs, types) ==
    ScoreOver(sigs, {i \in 1..Len(sigs) : sigs[i].signal.order_type \in types})

\* C15: for a non-empty set of signals the decision is Buy iff buyScore >
\* sellScore and buyScore > 0.5, with confidence buyScore/count; Sell iff
\* sellScore > buyScore and sellScore > 0.5, with confidence sellScore/count;
\* otherwise Hold with confidence (sum of all confidences)/count
C15_DecisionFollowsScores ==
    (Decided /\ signals # <<>>) =>
        LET buyScore == Score(signals, {"buy"})
            sellScore == Score(signals, {"sell"})
            allScore == Score(signals, {"buy", "sell", "hold"})
            count == Len(signals)
            half == Frac(1, 2)
            buyWins == FracLess(sellScore, buyScore) /\ FracLess(half, buyScore)
            sellWins == FracLess(buyScore, sellScore) /\ FracLess(half, sellScore)
        IN  /\ final_signal.order_type \in {"buy", "sell", "hold"}
            /\ (final_signal.order_type = "buy") <=> buyWins
            /\ (final_signal.order_type = "sell") <=> sellWins
            /\ buyWins => final_signal.confidence = FracOver(buyScore, count)
            /\ sellWins => final_signal.confidence = FracOver(sellScore, count)
            /\ (~buyWins /\ ~sellWins) =>
                  final_signal.confidence = FracOver(allScore, count)

\* two Buy signals, 0.25 and 0.5, decided as Buy with confidence 0.375
C15_Witness ==
    /\ apc = "decided_given"
    /\ Len(signals) = 2
    /\ signals[1].signal = TradeSignal("buy", Frac(1, 4))
    /\ signals[2].signal = TradeSignal("buy", Frac(1, 2))
    /\ final_signal = TradeSignal("buy", Frac(3, 8))

\* C16: the decision on the empty set of signals is Hold with confidence
\* 0.0, and the call returns (no division by the zero count)
C16_EmptyDecisionIsHoldZero ==
    (Decided /\ signals = <<>>) =>
        final_signal = TradeSignal("hold", Frac(0, 1))

\* an analysis in which every active strategy raised, then decided
C16_Witness ==
    /\ apc = "decided"
    /\ ActiveStrategies # {}
    /\ signals = <<>>
    /\ final_signal = TradeSignal("hold", Frac(0, 1))

\* C17: whenever buyScore equals sellScore the decision is Hold, also when
\* both exceed 0.5, for every number of signals
C17_TieIsHold ==
    (Decided /\ Score(signals, {"buy"}) = Score(signals, {"sell"})) =>
        final_signal.order_type = "hold"

\* a Buy and a Sell of 0.75 each: both scores exceed 0.5, decided as Hold
C17_Witness ==
    /\ Decided
    /\ Len(signals) = 2
    /\ Score(signals, {"buy"}) = Frac(3, 4)
    /\ Score(signals, {"sell"}) = Frac(3, 4)
    /\ final_signal.order_type = "hold"

\* the signals in another insertion order
Reordered(sigs, p) == [i \in 1..Len(sigs) |-> sigs[p[i]]]

\* C18: the decision does not depend on the insertion order of the signals:
\* every permutation of the same mapping gives the same action and the same
\* confidence
C18_DecisionIgnoresOrder ==
    Decided =>
        \A p \in Permutations(1..Len(signals)) :
            MakeTradingDecision(Reordered(signals, p)) = final_signal

\* the oscillator's signal inserted before the moving average's, the two
\* signals differ and the decision is a Sell
C18_Witness ==
    /\ apc = "decided"
    /\ Len(signals) = 2
    /\ signals[1].name = "rsi"
    /\ signals[2].name = "sma"
    /\ signals[1].signal # signals[2].signal
    /\ final_signal.order_type = "sell"

\* an action among Buy, Sell, Hold and a confidence in [0.0, 1.0]
WellFormed(sig) ==
    /\ sig.order_type \in {"buy", "sell", "hold"}
    /\ sig.confidence.den > 0
    /\ 0 <= sig.confidence.num
    /\ sig.confidence.num <= sig.confidence.den

\* C19: every signal a strategy evaluation produces has an action among Buy,
\* Sell, Hold and a confidence in [0.0, 1.0], and so has every decision whose
\* input signals have confidences in [0.0, 1.0]
C19_SignalsWellFormed ==
    /\ apc \in {"analyzed", "decided", "evaluated"} =>
          \A i \in 1..Len(signals) : WellFormed(signals[i].signal)
    /\ (Decided /\ \A i \in 1..Len(signals) : WellFormed(signals[i].signal)) =>
          WellFormed(final_signal)

\* the moving average's Buy, capped at 1.0, decided as a Buy
C19_Witness ==
    /\ apc = "decided"
    /\ Len(signals) = 1
    /\ signals[1].name = "sma"
    /\ signals[1].signal = TradeSignal("buy", Frac(1, 1))
    /\ final_signal = TradeSignal("buy", Frac(1, 1))

\* the number of prices a strategy needs
Lookback(name) == IF name = "sma" THEN LongWindow ELSE Period + 1

\* C20: a strategy evaluated on a series shorter than its lookback (fewer
\* than longWindow prices for the moving average, fewer than period+1 for the
\* oscillator, the empty and the missing series included) returns Hold with
\* confidence 0.0
C20_ShortSeriesIsHoldZero ==
    (/\ apc = "evaluated"
     /\ \/ market_data.kind # "list"
        \/ Len(market_data.prices) < Lookback(signals[1].name)) =>
        signals[1].signal = TradeSignal("hold", Frac(0, 1))

\* the oscillator evaluated on exactly period prices, one short of its lookback
C20_Witness ==
    /\ apc = "evaluated"
    /\ signals[1].name = "rsi"
    /\ market_data.kind = "list"
    /\ Len(market_data.prices) = Period
    /\ signals[1].signal = TradeSignal("hold", Frac(0, 1))

\* a moving-average evaluation of a series long enough for both windows
SMAEvaluated ==
    /\ apc = "evaluated"
    /\ signals[1].name = "sma"
    /\ market_data.kind = "list"
    /\ Len(market_data.prices) >= LongWindow
    /\ Len(market_data.prices) >= ShortWindow
StrictlyIncreasing(prices) ==
    \A i \in 1..(Len(prices) - 1) : prices[i] < prices[i + 1]
StrictlyDecreasing(prices) ==
    \A i \in 1..(Len(prices) - 1) : prices[i] > prices[i + 1]

\* the sum of the trailing w prices
RECURSIVE SumAt(_, _)
SumAt(prices, I) ==
    IF I = {} THEN 0
    ELSE LET i == CHOOSE x \in I : TRUE IN prices[i] + SumAt(prices, I \ {i})
TrailingSum(prices, w) == SumAt(prices, (Len(prices) - w + 1)..Len(prices))
\* relativeDiff = (shortMean - longMean) / longMean as numerator and
\* (positive) denominator
RelDiffNum(prices) ==
    TrailingSum(prices, ShortWindow) * LongWindow
        - TrailingSum(prices, LongWindow) * ShortWindow
RelDiffDen(prices) == TrailingSum(prices, LongWindow) * ShortWindow

\* C21 as claimed: the moving-average strategy returns Buy for every strictly
\* increasing series long enough for both windows, Sell for every strictly
\* decreasing one
C21_TrendDecides_Claimed ==
    SMAEvaluated =>
        /\ StrictlyIncreasing(market_data.prices) =>
              signals[1].signal.order_type = "buy"
        /\ StrictlyDecreasing(market_data.prices) =>
              signals[1].signal.order_type = "sell"

\* C21 as amended: on a strictly increasing series long enough for both
\* windows the strategy returns Buy when relativeDiff exceeds the threshold
\* and Hold otherwise, never Sell; on a strictly decreasing one Sell when
\* relativeDiff is below the negated threshold and Hold otherwise, never Buy
C21_TrendDecides ==
    SMAEvaluated =>
        LET prices == market_data.prices
            num == RelDiffNum(prices)
            den == RelDiffDen(prices)
            action == signals[1].signal.order_type
        IN  /\ StrictlyIncreasing(prices) =>
                  /\ num > 0
                  /\ action = IF num * ThresholdInverse > den THEN "buy" ELSE "hold"
            /\ StrictlyDecreasing(prices) =>
                  /\ num < 0
                  /\ action = IF -num * ThresholdInverse > den THEN "sell" ELSE "hold"

\* the rising series 50, 51, 52: relativeDiff is 1/102, the answer is Hold
C21_Witness ==
    /\ SMAEvaluated
    /\ Len(market_data.prices) = LongWindow
    /\ LongWindow > 1
    /\ StrictlyIncreasing(market_data.prices)
    /\ market_data.prices[1] = 50
    /\ signals[1].signal.order_type = "hold"

\* C22: on a series of at least longWindow prices the moving-average
\* strategy returns Buy iff relativeDiff > threshold, Sell iff relativeDiff <
\* -threshold and Hold otherwise, where relativeDiff = (shortMean -
\* longMean)/longMean over the trailing windows; the confidence of a Buy or
\* Sell is min(|relativeDiff| * 10, 1.0)
C22_RelativeDiffDecides ==
    SMAEvaluated =>
        LET num == RelDiffNum(market_data.prices)
            den == RelDiffDen(market_data.prices)
            magnitude == IF num < 0 THEN -num ELSE num
            scaled == IF magnitude * 10 >= den THEN Frac(1, 1)
                      ELSE Frac(magnitude * 10, den)
            sig == signals[1].signal
        IN  /\ sig.order_type \in {"buy", "sell", "hold"}
            /\ (sig.order_type = "buy") <=> (num * ThresholdInverse > den)
            /\ (sig.order_type = "sell") <=> (num * ThresholdInverse < -den)
            /\ sig.order_type \in {"buy", "sell"} => sig.confidence = scaled

\* a Sell whose confidence is below the cap
C22_Witness ==
    /\ SMAEvaluated
    /\ signals[1].signal.order_type = "sell"
    /\ signals[1].signal.confidence.num < signals[1].signal.confidence.den
    /\ signals[1].signal.confidence.num * ThresholdInverse
          > signals[1].signal.confidence.den * ConfidenceGain

\* no price of the trailing window of Period changes is below the one before
NoDecreaseInWindow(prices) ==
    \A i \in (Len(prices) - Period + 1)..Len(prices) : prices[i] >= prices[i - 1]

\* C23: on a series of at least period+1 prices whose trailing window has no
\* price decrease (a flat window included) the index is 100 and the
\* oscillator returns Sell
C23_NoLossIsSell ==
    (/\ apc = "evaluated"
     /\ signals[1].name = "rsi"
     /\ market_data.kind = "list"
     /\ Len(market_data.prices) >= Period + 1
     /\ NoDecreaseInWindow(market_data.prices)) =>
        /\ CalculateRSI(market_data.prices) =
              [nan |-> FALSE, value |-> Frac(RSIScale, 1)]
        /\ signals[1].signal.order_type = "sell"

\* the last ledger call was update_trade_status on an existing row
Updated == lastOp.op = "update" /\ lastOp.id \in 1..Len(trades)
Terminal == {"executed", "failed"}

\* C24: a second update_trade_status for the same trade with the same
\* terminal status leaves status and executed_at as the first call left
\* them, and no call moves a row from a terminal status back to pending
C24_TerminalUpdateIdempotent ==
    Updated =>
        LET before == lastOp.before[lastOp.id]
            after == trades[lastOp.id]
        IN  /\ (lastOp.repeated /\ lastOp.status \in Terminal) =>
                  /\ after.status = before.status
                  /\ after.executed_at = before.executed_at
            /\ before.status \in Terminal => after.status # "pending"

\* the fields no update may touch
Immutable(row) ==
    [id |-> row.id, symbol |-> row.symbol, order_type |-> row.order_type,
     quantity |-> row.quantity, price |-> row.price,
     total_amount |-> row.total_amount, strategy |-> row.strategy,
     confidence |-> row.confidence, reason |-> row.reason,
     created_at |-> row.created_at]

\* C25: no row is ever removed, ids are unique and never change, and
\* update_trade_status changes only status, executed_at and order_id of the
\* addressed row: its other fields and every other row stay as they were
C25_OnlyStatusFieldsChange ==
    /\ \A i \in 1..Len(trades) : trades[i].id = i
    /\ lastOp.op # "none" =>
          /\ Len(trades) >= Len(lastOp.before)
          /\ \A i \in 1..Len(lastOp.before) :
                /\ Immutable(trades[i]) = Immutable(lastOp.before[i])
                /\ (lastOp.op # "update" \/ i # lastOp.id) =>
                      trades[i] = lastOp.before[i]

\* two rows, the second one updated to executed with a broker order id, the
\* first one still as it was logged
C25_Witness ==
    /\ lastOp.op = "update"
    /\ lastOp.id = 2
    /\ Len(trades) = 2
    /\ trades[2].status = "executed"
    /\ trades[2].order_id = 7
    /\ trades[2].executed_at > 0
    /\ trades[2] # lastOp.before[2]
    /\ trades[1].status = "pending"

\* C26: the step in which execute_trade finds the session not
\* authenticated places no order and leaves the engine not running
C26_AuthFailureStopsEngine ==
    [][\A t \in Threads :
          (pc[t] = "et_auth" /\ pc'[t] = "et_ret" /\ loc'[t].outcome = "noauth") =>
              /\ orders' = orders
              /\ ~is_running']_vars

\* the threads inside RobinhoodAuth.login: calling rh.login, or about to
\* record its result
LoggingIn == {t \in Threads : pc[t] \in {"start_login", "start_auth"}}

\* C27: the session is never established by two callers at once: at most
\* one login is in progress at any time
C27_OneLoginAtATime == Cardinality(LoggingIn) <= 1

\* C28: execute_trade returns true for a Buy or Sell only after the trade's
\* record is in the ledger: whenever it returns true for such a signal, a
\* row for that symbol and action, with the order's id, exists
C28_SuccessOnlyAfterRecord ==
    \A t \in Threads :
        (pc[t] = "et_ret" /\ loc[t].ret /\ loc[t].order_type # "hold") =>
            \E i \in 1..Len(trades) :
                /\ trades[i].symbol = loc[t].symbol
                /\ trades[i].order_type = loc[t].order_type
                /\ trades[i].order_id = loc[t].order_id

\* a pass of the cycle returns true for a Sell whose row is in the ledger
C28_Witness ==
    \E t \in Schedulers :
        /\ pc[t] = "et_ret"
        /\ loc[t].ret
        /\ loc[t].order_type = "sell"
        /\ loc[t].outcome = "accepted"
        /\ Len(trades) > 0
        /\ trades[Len(trades)].order_id = loc[t].order_id

\* C29: every trade and its outcome is recorded: when an attempt returns, a
\* row carries the broker's order id if the order was accepted, and a row for
\* the symbol and action exists if the order was refused or raised
C29_EveryOutcomeRecorded ==
    \A t \in Threads :
        pc[t] = "et_ret" =>
            /\ loc[t].order_id # 0 =>
                  \E i \in 1..Len(trades) : trades[i].order_id = loc[t].order_id
            /\ loc[t].outcome \in {"refused", "raised"} =>
                  \E i \in 1..Len(trades) :
                      /\ trades[i].symbol = loc[t].symbol
                      /\ trades[i].order_type = loc[t].order_type

\* the pass at hand, or the last one, fetched an empty price series
EmptySeriesPass ==
    /\ apc \in {"analyzed", "decided"}
    /\ market_data.kind = "list"
    /\ market_data.prices = <<>>

\* C30: a pass of the cycle whose data source returned an empty price series
\* places no order, writes no trade row and ends without an exception: no
\* step of it changes the orders or the ledger, it never enters
\* execute_trade, and it ends as a pass without a trade
C30_EmptySeriesNoTrade ==
    [][EmptySeriesPass' =>
          /\ orders' = orders
          /\ trades' = trades
          /\ \A t \in Schedulers :
                /\ pc'[t] \in {"cycle_decide", "cycle", "snapshot", "sched_ret", "idle"}
                /\ (pc[t] = "cycle_decide" /\ pc'[t] = "cycle") =>
                      loc'[t].last = "nothing"]_vars

\* a started bot: both strategies answered Hold 0.0 on the empty series, the
\* decision was Hold 0.0 and the pass ended without a trade
C30_Witness ==
    /\ EmptySeriesPass
    /\ apc = "decided"
    /\ is_authenticated
    /\ Len(signals) = 2
    /\ final_signal = TradeSignal("hold", Frac(0, 1))
    /\ \E t \in Schedulers : pc[t] = "cycle" /\ loc[t].last = "nothing"

(***************************************************************************)
(* main(): the run modes and the scheduler                                 *)
(***************************************************************************)
\* C31: a program started with --analyze-only places no brokerage order from
\* its bootstrap or from a scheduled cycle, in web, cli and daemon mode: every
\* order the broker accepted was asked for by an operator
C31_AnalyzeOnlyNeverTrades ==
    (mpc # "none" /\ args.analyze_only) =>
        \A i \in 1..Len(orders) : orders[i].caller \notin {"cycle", "cli"}

\* no start(), stop() or other call of the bot is in progress
Quiescent == \A t \in Threads : pc[t] = "idle"

\* C32: whatever the interleaving of start() and stop() on concurrent threads,
\* in every quiescent state a bot that is marked running has an authenticated
\* brokerage session: the flag is set and the session is logged in
C32_RunningImpliesSession ==
    (Quiescent /\ is_running) => (is_authenticated /\ rh_session)

\* a thread is inside start() or stop()
InLifecycle(t) ==
    pc[t] \in {"start_login", "start_auth", "start_run",
               "stop_logout", "stop_auth", "stop_ret"}

\* C33: once stop() has returned and until a later start() succeeds (the bot
\* is not running and no start() or stop() is in progress) no brokerage order
\* is placed, by a cycle or manual trade in flight or by a later manual trade,
\* also when the logout inside stop() failed
C33_NoOrderAfterStop ==
    [][(~is_running /\ \A t \in Threads : ~InLifecycle(t)) => orders' = orders]_vars

\* the operator has stopped the bot and a later start() has succeeded, with
\* the jobs scheduled at the bootstrap
Restarted == spc # "none" /\ stopped /\ is_running

\* a scheduled job runs a trading cycle
CycleRuns == pc[SchedThread] \in {"cycle", "et_auth", "et_portfolio", "et_positions",
                                  "et_order", "et_price", "et_log", "et_ret"}

\* C34: in web mode with scheduled trading, once the operator has stopped the
\* bot and started it again, a scheduled trigger eventually runs a trading
\* cycle again, unless the bot is stopped once more before
C34_RestartRestoresCycles == Restarted ~> (CycleRuns \/ ~is_running)

\* schedule.run_pending() calls run_scheduled_trading
TriggerFires == spc = "pending" /\ spc' \in {"skipped", "running"}

\* C35: a scheduled trigger that fires while the bot is not running does
\* nothing: the job is skipped, it starts no cycle, places no order, writes no
\* trade and no snapshot and leaves is_running false, and so does its return
\* to the scheduler loop
C35_StoppedTriggerDoesNothing ==
    [][/\ (TriggerFires /\ ~is_running) =>
              /\ spc' = "skipped"
              /\ pc'[SchedThread] = "idle"
              /\ ~is_running'
              /\ UNCHANGED <<pc, loc, orders, trades, snapshots>>
       /\ (spc = "skipped" /\ spc' # "skipped") =>
              /\ spc' = "check"
              /\ UNCHANGED botVars]_vars

\* a trigger has fired on a stopped bot and was skipped
C35_Witness == spc = "skipped" /\ ~is_running /\ stopped

(***************************************************************************)
(* execute_trade: the checks before the order and the record after it      *)
(***************************************************************************)
\* the call is past its checks: the order is about to be sent or was sent
PastChecks(t) == pc[t] \in {"et_order", "et_price", "et_log"} \/ loc[t].order_id # 0

\* every row of the ledger belongs to an order the broker accepted
RowsHaveOrders ==
    \A i \in 1..Len(trades) :
        /\ trades[i].order_id \in 1..Len(orders)
        /\ orders[trades[i].order_id].order_type = trades[i].order_type

\* C36: a Buy is sent to the broker only when the buying power read from the
\* portfolio summary (0 when the summary could not be obtained) is at least
\* the trade amount; an attempt refused for its buying power returns False,
\* has sent no order, and no row exists without an accepted order
C36_NoBuyBeyondBuyingPower ==
    /\ \A t \in Threads :
          loc[t].order_type = "buy" =>
            /\ PastChecks(t) => loc[t].buying_power >= loc[t].amount
            /\ loc[t].outcome = "nofunds" =>
                  /\ loc[t].buying_power < loc[t].amount
                  /\ ~loc[t].ret
                  /\ loc[t].order_id = 0
    /\ RowsHaveOrders

\* a Buy was refused with a buying power that the broker reported, and one
\* with the summary missing
C36_Witness ==
    \E t \in Threads :
        /\ loc[t].outcome = "nofunds"
        /\ loc[t].buying_power \in BuyingPowers
        /\ loc[t].buying_power < loc[t].amount

\* C37: a Sell is sent to the broker only when the account holds a position
\* in the symbol; with no entry or with quantity 0 execute_trade returns
\* False, has sent no order, and no Sell row exists without an accepted Sell
C37_NoSellWithoutPosition ==
    /\ \A t \in Threads :
          loc[t].order_type = "sell" =>
            /\ PastChecks(t) =>
                  (loc[t].position.kind = "entry" /\ loc[t].position.quantity > 0)
            /\ (loc[t].position.kind \in {"none", "entry"}
                   /\ loc[t].position.quantity = 0) =>
                  /\ pc[t] = "et_ret"
                  /\ loc[t].outcome = "nopos"
                  /\ ~loc[t].ret
                  /\ loc[t].order_id = 0
    /\ \A i \in 1..Len(trades) :
          trades[i].order_type = "sell" =>
             /\ trades[i].order_id \in 1..Len(orders)
             /\ orders[trades[i].order_id].order_type = "sell"

\* a Sell was refused for an entry with quantity 0
C37_Witness ==
    \E t \in Threads :
        /\ loc[t].order_type = "sell"
        /\ loc[t].position = [kind |-> "entry", quantity |-> 0]
        /\ loc[t].outcome = "nopos"

\* C38: every row written for an accepted order has a price above 0 and a
\* total_amount equal to the dollar amount that was sent to the broker, also
\* when no current price could be fetched after the order
C38_RecordMatchesOrder ==
    \A i \in 1..Len(trades) :
        /\ trades[i].price > 0
        /\ trades[i].order_id \in 1..Len(orders) =>
              trades[i].total_amount = orders[trades[i].order_id].amount

(***************************************************************************)
(* RiskManager.can_trade: the two lookups                                  *)
(***************************************************************************)
\* C39: can_trade fails closed on the position-count lookup and open on the
\* portfolio lookup: a Buy whose position lookup raises is rejected, a
\* portfolio value that cannot be obtained is never the cause of a rejection,
\* and a Sell is never rejected for the position count
C39_LookupFailures ==
    \A t \in RiskCallers :
        rpc[t] = "ct_ret" =>
            /\ (rloc[t].action = "buy" /\ rloc[t].pos.kind = "raise") => ~rloc[t].result
            /\ rloc[t].pf.kind # "ok" => rloc[t].reason # "portfolio"
            /\ rloc[t].action = "sell" => rloc[t].reason # "positions"

\* a Buy within the loss and size limits was rejected because the position
\* lookup raised
C39_Witness ==
    \E t \in RiskCallers :
        /\ rpc[t] = "ct_ret"
        /\ rloc[t].action = "buy"
        /\ rloc[t].pos.kind = "raise"
        /\ rloc[t].reason = "positions"
        /\ ~rloc[t].result

====
